---- MODULE Spec2Model ----
(***************************************************************************)
(* Model of the IMQ WebSocket client of giiny                              *)
(* (src/internal/imvu/websocket.go).                                       *)
(*                                                                         *)
(* Every section of code that runs with c.mu held is one atomic action.    *)
(* run() keeps the mutex from line 125 until the dial has returned (line   *)
(* 141 or 150), so the guard, the dial and the bookkeeping after it are    *)
(* one action as well; SpecDial alone takes the dial as a step of its own  *)
(* and records in mu that the mutex is held across it.                     *)
(* Code that runs without the mutex (the loads of                          *)
(* c.conn and c.done by the read loop, timers firing, the network) is      *)
(* split into its own steps.  Goroutines and pending timer callbacks are   *)
(* kept in the bag procs; a goroutine is a record with its position pc     *)
(* and its locals.                                                         *)
(*                                                                         *)
(* The variables last, userClosed, sinceTimeout, reconnectedFor, fails,     *)
(* scenario, wanted and subscribed and the fields why and stale of a       *)
(* goroutine only observe the client.                                      *)
(*                                                                         *)
(* The operation-id counter (OperationID, src/unnamed/part_005) is         *)
(* modelled on its own, with its callers, in SpecOpID; the records of the  *)
(* client are modelled by their record type, without their op_id.          *)
(* The variable watch, which no action changes, says what is observed:     *)
(* Spec observes everything, the other specifications one operation each.  *)
(***************************************************************************)
EXTENDS Integers, Sequences, FiniteSets, Bags, TLC

\* ---------------------------------------------------------------- bounds
\* goroutines and pending timer callbacks alive at the same time
MaxProcs == 2
\* sockets that the client or a goroutine refers to at the same time
MaxSockets == 2
\* armed retry timers that no field of the client refers to any more
MaxLeaked == 1
\* goroutines that call OperationID.GetNew()
MaxCallers == 3
\* calls of OperationID.GetNew()
MaxCalls == 5
\* goroutines started by go c.config.OnMessage(msg) that have not returned
MaxHandlers == 2
\* frames whose arrival is numbered
MaxFrames == 3
\* records of one socket whose order is kept
MaxWire == 3
\* calls of API.SendChatMessage
MaxChats == 2

\* ------------------------------------------------------ program constants
\* config.ReconnectIntervals, in seconds: the first three entries of the
\* default table
ReconnectIntervals == <<5, 15, 45>>

States == {"Closed", "Connecting", "Authenticating", "Authenticated", "Waiting"}

\* inbound frames: the result record with status 0, the result record with
\* another (or no numeric) status, a pong, any other well-formed record,
\* and a frame that is no JSON or has no string record field
Frames == {"result0", "resultBad", "pong", "other", "malformed"}

\* arguments of the consumer's Send calls; send() does not look into the
\* payload map, it only adds the record key to it
SendRecords == {"msg_c2g_send_message"}
EmptyMap == [k \in {} |-> ""]
SendPayloads == {[k \in {"queue"} |-> "q"]}

\* queue names given to SubscribeToQueue, and the payload it builds
Queues == {"room-1"}

SubscribePayload(queue) == [k \in {"queues_with_results"} |-> queue]

\* outcomes of the consumer's pre-reconnect hook
HookOutcomes == {"err", "ok"}

NilTimer == [st |-> "nil", iv |-> 0]

\* var OpID = OperationID{ID: 57}
OpIDInitial == 57

\* ------------------------------------------------- the chat payload codec
\* src/unnamed/part_003, lines 222-307.  A text is a sequence of characters
\* (strings of length one).  The characters are those of the JSON text of a
\* payload and of the values below; none of them is escaped by json.Marshal.
Ascii ==
    { <<"\"", 34>>, <<"+", 43>>, <<",", 44>>, <<"-", 45>>, <<".", 46>>,
      <<"0", 48>>, <<"1", 49>>, <<"2", 50>>, <<"3", 51>>, <<"4", 52>>,
      <<"5", 53>>, <<"6", 54>>, <<"7", 55>>, <<"8", 56>>, <<"9", 57>>,
      <<":", 58>>, <<"I", 73>>, <<"a", 97>>, <<"b", 98>>, <<"c", 99>>,
      <<"d", 100>>, <<"e", 101>>, <<"g", 103>>, <<"h", 104>>, <<"i", 105>>,
      <<"m", 109>>, <<"o", 111>>, <<"r", 114>>, <<"s", 115>>, <<"t", 116>>,
      <<"u", 117>>, <<"{", 123>>, <<"}", 125>> }

Code(c) == (CHOOSE p \in Ascii : p[1] = c)[2]

Char(b) == (CHOOSE p \in Ascii : p[2] = b)[1]

\* []byte(text) and string(bytes)
Bytes(t) == [i \in DOMAIN t |-> Code(t[i])]

Text(b) == [i \in DOMAIN b |-> Char(b[i])]

Quote == "\""

Digits == {"0", "1", "2", "3", "4", "5", "6", "7", "8", "9"}

RECURSIVE StripZeros(_)
StripZeros(t) ==
    IF Len(t) > 1 /\ Head(t) = "0" THEN StripZeros(Tail(t)) ELSE t

\* a <= b for magnitudes without leading zeros
MagLeq(a, b) ==
    \/ Len(a) < Len(b)
    \/ /\ Len(a) = Len(b)
       /\ \/ a = b
          \/ \E i \in DOMAIN a :
               /\ \A j \in 1 .. (i - 1) : a[j] = b[j]
               /\ Code(a[i]) < Code(b[i])

\* 2^63 - 1 and 2^63
MaxInt64 == <<"9", "2", "2", "3", "3", "7", "2", "0", "3", "6", "8", "5",
              "4", "7", "7", "5", "8", "0", "7">>

MinInt64Mag == <<"9", "2", "2", "3", "3", "7", "2", "0", "3", "6", "8", "5",
                 "4", "7", "7", "5", "8", "0", "8">>

\* an int64: its sign and its magnitude in decimal, without leading zeros
Int64(neg, mag) == [neg |-> neg /\ mag # <<"0">>, mag |-> mag]

NoInt == [ok |-> FALSE, v |-> Int64(FALSE, <<"0">>)]

\* strconv.ParseInt(s, 10, 64) that does not check the range
ParseInt_anySize(s) ==
    LET signed == s # <<>> /\ Head(s) \in {"+", "-"}
        neg    == s # <<>> /\ Head(s) = "-"
        body   == IF signed THEN Tail(s) ELSE s
    IN  IF body = <<>> \/ \E i \in DOMAIN body : body[i] \notin Digits
        THEN NoInt
        ELSE [ok |-> TRUE, v |-> Int64(neg, StripZeros(body))]

\* strconv.ParseInt(s, 10, 64), lines 247 and 266: an optional sign, then
\* digits only, and a value from -2^63 to 2^63 - 1
ParseInt(s) ==
    LET signed == s # <<>> /\ Head(s) \in {"+", "-"}
        neg    == s # <<>> /\ Head(s) = "-"
        body   == IF signed THEN Tail(s) ELSE s
        mag    == StripZeros(body)
    IN  IF body = <<>> \/ \E i \in DOMAIN body : body[i] \notin Digits
        THEN NoInt
        ELSE IF ~MagLeq(mag, IF neg THEN MinInt64Mag ELSE MaxInt64)
        THEN NoInt
        ELSE [ok |-> TRUE, v |-> Int64(neg, mag)]

\* strconv.FormatInt(num, 10), line 237, and json.Marshal(i), line 248
FormatInt(v) == IF v.neg THEN <<"-">> \o v.mag ELSE v.mag

\* json.Marshal(string(s)), line 251: no character of Ascii is escaped
JString(s) == <<Quote>> \o s \o <<Quote>>

IsJString(t) ==
    /\ Len(t) >= 2
    /\ t[1] = Quote /\ t[Len(t)] = Quote
    /\ \A i \in 2 .. (Len(t) - 1) : t[i] # Quote

\* a JSON number without fraction and exponent: -?(0|[1-9][0-9]*)
IsJInteger(t) ==
    LET body == IF t # <<>> /\ Head(t) = "-" THEN Tail(t) ELSE t
    IN  /\ body # <<>>
        /\ \A i \in DOMAIN body : body[i] \in Digits
        /\ Len(body) > 1 => body[1] # "0"

Failed == [ok |-> FALSE, s |-> <<>>]

\* StringOrInt.UnmarshalJSON, lines 226-242: a JSON string is taken as it
\* is; otherwise the literal must decode into an int64 (a number with a
\* fraction or an exponent, or outside the range, does not)
StringOrInt_UnmarshalJSON(data) ==
    IF IsJString(data)
    THEN [ok |-> TRUE, s |-> SubSeq(data, 2, Len(data) - 1)]
    ELSE IF IsJInteger(data) /\ ParseInt(data).ok
    THEN [ok |-> TRUE, s |-> FormatInt(ParseInt(data).v)]
    ELSE Failed

\* StringOrInt.MarshalJSON, lines 245-252
StringOrInt_MarshalJSON(s) ==
    IF ParseInt(s).ok THEN FormatInt(ParseInt(s).v) ELSE JString(s)

\* base64.StdEncoding
B64 == <<"A", "B", "C", "D", "E", "F", "G", "H", "I", "J", "K", "L", "M",
         "N", "O", "P", "Q", "R", "S", "T", "U", "V", "W", "X", "Y", "Z",
         "a", "b", "c", "d", "e", "f", "g", "h", "i", "j", "k", "l", "m",
         "n", "o", "p", "q", "r", "s", "t", "u", "v", "w", "x", "y", "z",
         "0", "1", "2", "3", "4", "5", "6", "7", "8", "9", "+", "/">>

Sextet(c) == (CHOOSE i \in DOMAIN B64 : B64[i] = c) - 1

RECURSIVE EncodeToString(_)
EncodeToString(b) ==
    IF b = <<>> THEN <<>>
    ELSE IF Len(b) = 1
    THEN LET n == b[1] * 16
         IN  <<B64[(n \div 64) + 1], B64[(n % 64) + 1], "=", "=">>
    ELSE IF Len(b) = 2
    THEN LET n == (b[1] * 256 + b[2]) * 4
         IN  <<B64[(n \div 4096) + 1], B64[((n \div 64) % 64) + 1],
               B64[(n % 64) + 1], "=">>
    ELSE LET n == b[1] * 65536 + b[2] * 256 + b[3]
         IN  <<B64[(n \div 262144) + 1], B64[((n \div 4096) % 64) + 1],
               B64[((n \div 64) % 64) + 1], B64[(n % 64) + 1]>>
               \o EncodeToString(SubSeq(b, 4, Len(b)))

IsBase64(t) ==
    /\ Len(t) % 4 = 0
    /\ \A i \in DOMAIN t :
         \/ \E k \in DOMAIN B64 : B64[k] = t[i]
         \/ t[i] = "=" /\ i >= Len(t) - 1 /\ (i = Len(t) - 1 => t[Len(t)] = "=")

RECURSIVE DecodeString(_)
DecodeString(t) ==
    IF t = <<>> THEN <<>>
    ELSE IF t[3] = "="
    THEN LET n == Sextet(t[1]) * 64 + Sextet(t[2])
         IN  <<n \div 16>>
    ELSE IF t[4] = "="
    THEN LET n == (Sextet(t[1]) * 4096 + Sextet(t[2]) * 64 + Sextet(t[3]))
                    \div 4
         IN  <<n \div 256, n % 256>>
    ELSE LET n == Sextet(t[1]) * 262144 + Sextet(t[2]) * 4096
                    + Sextet(t[3]) * 64 + Sextet(t[4])
         IN  <<n \div 65536, (n \div 256) % 256, n % 256>>
               \o DecodeString(SubSeq(t, 5, Len(t)))

\* the names of the fields in the JSON text
KeyChatId == <<"c", "h", "a", "t", "I", "d">>

KeyMessage == <<"m", "e", "s", "s", "a", "g", "e">>

KeyTo == <<"t", "o">>

KeyUserId == <<"u", "s", "e", "r", "I", "d">>

ChatMessagePayload(chatId, message, to, userId) ==
    [chatId |-> chatId, message |-> message, to |-> to, userId |-> userId]

\* json.Marshal(chatMessageEncodedPayload(b)), line 298: the fields in the
\* order of the struct, without white space
MarshalStruct(b) ==
    <<"{">> \o JString(KeyChatId) \o <<":">>
        \o StringOrInt_MarshalJSON(b.chatId)
      \o <<",">> \o JString(KeyMessage) \o <<":">> \o JString(b.message)
      \o <<",">> \o JString(KeyTo) \o <<":">> \o StringOrInt_MarshalJSON(b.to)
      \o <<",">> \o JString(KeyUserId) \o <<":">>
        \o StringOrInt_MarshalJSON(b.userId)
      \o <<"}">>

\* ChatMessagePayload.MarshalJSON, lines 297-307
ChatMessagePayload_MarshalJSON(b) ==
    JString(EncodeToString(Bytes(MarshalStruct(b))))

\* the position of the first c in t from position i on, or 0
RECURSIVE Index(_, _, _)
Index(t, c, i) ==
    IF i > Len(t) THEN 0 ELSE IF t[i] = c THEN i ELSE Index(t, c, i + 1)

\* the members "key":value of the text between the braces of an object
RECURSIVE Members(_)
Members(t) ==
    IF t = <<>> THEN <<>>
    ELSE LET k == Index(t, ",", 1)
         IN  IF k = 0 THEN <<t>>
             ELSE <<SubSeq(t, 1, k - 1)>> \o Members(SubSeq(t, k + 1, Len(t)))

\* the literal of the member named key, or the empty text
Member(ms, key) ==
    LET named == {i \in DOMAIN ms :
                    /\ Len(ms[i]) > Len(key) + 3
                    /\ SubSeq(ms[i], 1, Len(key) + 3)
                         = JString(key) \o <<":">>}
    IN  IF named = {} THEN <<>>
        ELSE LET i == CHOOSE j \in named : \A k \in named : j >= k
             IN  SubSeq(ms[i], Len(key) + 4, Len(ms[i]))

NoPayload == [ok |-> FALSE, b |-> ChatMessagePayload(<<>>, <<>>, <<>>, <<>>)]

\* json.Unmarshal(decodedJSON, &alias), line 287: a field that the object
\* does not name keeps its zero value
UnmarshalStruct(t) ==
    IF Len(t) < 2 \/ t[1] # "{" \/ t[Len(t)] # "}" THEN NoPayload
    ELSE LET ms == Members(SubSeq(t, 2, Len(t) - 1))
             field(key) ==
                 IF Member(ms, key) = <<>> THEN [ok |-> TRUE, s |-> <<>>]
                 ELSE StringOrInt_UnmarshalJSON(Member(ms, key))
             message ==
                 IF Member(ms, KeyMessage) = <<>> THEN [ok |-> TRUE, s |-> <<>>]
                 ELSE IF IsJString(Member(ms, KeyMessage))
                 THEN [ok |-> TRUE,
                       s |-> SubSeq(Member(ms, KeyMessage), 2,
                                    Len(Member(ms, KeyMessage)) - 1)]
                 ELSE Failed
         IN  IF field(KeyChatId).ok /\ message.ok /\ field(KeyTo).ok
                  /\ field(KeyUserId).ok
             THEN [ok |-> TRUE,
                   b |-> ChatMessagePayload(field(KeyChatId).s, message.s,
                                            field(KeyTo).s,
                                            field(KeyUserId).s)]
             ELSE NoPayload

\* ChatMessagePayload.UnmarshalJSON, lines 279-294
ChatMessagePayload_UnmarshalJSON(data) ==
    LET dataStr == SubSeq(data, 2, Len(data) - 1)
    IN  IF ~IsBase64(dataStr) THEN NoPayload
        ELSE UnmarshalStruct(Text(DecodeString(dataStr)))

\* the values of chatId, to and userId that are encoded: integers in their
\* usual form, integers written otherwise, and texts that are no int64
FieldValues ==
    { <<"1", "4", "0">>, <<"0">>, <<"1", "2", "3", "4", "5">>, <<"-", "5">>,
      <<"0", "0", "7">>, <<"-", "0">>, <<"+", "7">>,
      MaxInt64, <<"-">> \o MinInt64Mag,
      <<"a", "b", "c">>, <<>>, <<"1", ".", "5">>, MinInt64Mag }

\* those of them that denote a 64-bit integer
Int64Texts ==
    { <<"1", "4", "0">>, <<"0">>, <<"1", "2", "3", "4", "5">>, <<"-", "5">>,
      <<"0", "0", "7">>, <<"-", "0">>, <<"+", "7">>,
      MaxInt64, <<"-">> \o MinInt64Mag }

\* 64-bit integers n in decimal, and the JSON literals that are decoded:
\* the number n, the string "n", and the number -0
Int64Decimals ==
    { <<"1", "4", "0">>, <<"0">>, <<"1", "2", "3", "4", "5">>, <<"-", "5">>,
      MaxInt64, <<"-">> \o MinInt64Mag }

Literals ==
    {<<n, n>> : n \in Int64Decimals}
      \cup {<<n, JString(n)>> : n \in Int64Decimals}
      \cup {<< <<"0">>, <<"-", "0">> >>}

ChatPayloads ==
    {ChatMessagePayload(c, <<"h", "i">>, t, u) :
        c \in FieldValues, t \in {<<"0">>, <<"0", "0", "7">>, <<"a", "b", "c">>},
        u \in {<<"1", "2", "3", "4", "5">>, <<"+", "7">>, <<>>}}

\* a task of the codec: its position, the payload and its encoding, the
\* decoded payload, the integer or stored value, and the decoded value
CodecIdle ==
    [pc |-> "idle", b |-> NoPayload.b, data |-> <<>>, back |-> NoPayload,
     n |-> <<>>, val |-> Failed]

CodecTasks ==
    {[CodecIdle EXCEPT !.pc = "payload", !.b = p] : p \in ChatPayloads}
      \cup {[CodecIdle EXCEPT !.pc = "literal", !.n = l[1], !.data = l[2]] :
              l \in Literals}
      \cup {[CodecIdle EXCEPT !.pc = "stored", !.n = s] : s \in FieldValues}

\* ------------------------------------------------------------ the Config
\* The fields of Config: the credentials UserID and SessionID, and URL,
\* which stands for the fields that are not credentials (URL, Headers,
\* Metadata, the intervals and the callbacks).  absent marks the nil
\* *Config a pre-reconnect hook may hand to its callback.
Config(userID, sessionID, url) ==
    [absent |-> FALSE, UserID |-> userID, SessionID |-> sessionID,
     URL |-> url]

InitialConfig == Config(<<"u", "1">>, <<"s", "1">>, "wss-1")

NilConfig == [InitialConfig EXCEPT !.absent = TRUE]

\* what a pre-reconnect hook hands to its callback when it reports no error
HookConfigs ==
    {NilConfig, Config(<<"u", "2">>, <<"s", "2">>, "wss-2"),
     Config(<<"u", "1">>, <<"s", "2">>, "wss-1")}

VARIABLES
    state,                      \* c.state
    conn,                       \* c.conn: 0 is nil, else the socket
    done,                       \* c.done: 0 is nil, else the channel
    connectRetryTimer,          \* c.connectRetryTimer: [st, iv]
    pingTimer,                  \* c.pingTimer: "nil", "armed", "fired"
    serverTimeoutTimer,         \* c.serverTimeoutTimer
    connectRetryIntervalIndex,  \* c.connectRetryIntervalIndex
    closedSocks,                \* sockets on which conn.Close() was called
    closedDone,                 \* done channels that were closed
    leakedRetry,                \* armed retry timers no field refers to
    procs,                      \* bag of goroutines / pending callbacks
    panicked,                   \* the process died of a runtime panic
    last,                       \* what the last step did (observation)
    userClosed,                 \* Close() returned, no consumer Connect() since
    sinceTimeout,               \* a server-timeout declared the connection
                                \* dead; no retry or new attempt since
    reconnectedFor,             \* sockets whose loss onDisconnected() handled
    fails,                      \* dial failures in a row since the backoff
                                \* index was reset; -1 when not known
    scenario,                   \* the states the hook was called with since a
                                \* Connect() on an idle client, or Off
    wanted,                     \* queues SubscribeToQueue was called with
    subscribed,                 \* queues whose msg_c2g_subscribe record was
                                \* written to the current socket
    watch,                      \* which steps are observed: an operation,
                                \* "hooks" or "all"; fixed by Init
    ID,                         \* o.ID
    opMu,                       \* o.Mutex: 0 is unlocked, else the holder
    callers,                    \* the callers of GetNew(): position pc,
                                \* result and the value loaded by o.ID++
    issued,                     \* the values GetNew() returned, in the order
                                \* of return
    handlers,                   \* bag of the goroutines started with
                                \* go c.config.OnMessage(msg) that have not
                                \* called the hook yet: socket and arrival
                                \* number of their frame
    invoked,                    \* socket and arrival number of the frames
                                \* OnMessage was called with, in the order
                                \* of the calls
    arrived,                    \* frames ReadMessage has returned
    mu,                         \* c.mu between two steps: 0 is unlocked, 1 is
                                \* held by the run() that is dialling
    config,                     \* c.config
    wire,                       \* the first records written to the socket
                                \* c.conn, in the order of the writes
    chat,                       \* the calls of API.SendChatMessage: the
                                \* op_ids drawn, in the order of the draws,
                                \* those whose caller has not called Send()
                                \* yet, and those of the records written, in
                                \* the order of the writes
    codec                       \* the task of the chat payload codec

vars == <<state, conn, done, connectRetryTimer, pingTimer, serverTimeoutTimer,
          connectRetryIntervalIndex, closedSocks, closedDone, leakedRetry,
          procs, panicked, last, userClosed, sinceTimeout,
          reconnectedFor, fails, scenario, wanted, subscribed, watch,
          ID, opMu, callers, issued, handlers, invoked, arrived, codec, mu,
          config, wire, chat>>

opVars == <<ID, opMu, callers, issued>>

clientVars ==
    <<state, conn, done, connectRetryTimer, pingTimer, serverTimeoutTimer,
      connectRetryIntervalIndex, closedSocks, closedDone, leakedRetry,
      procs, panicked, last, userClosed, sinceTimeout,
      reconnectedFor, fails, scenario, wanted, subscribed, watch,
      handlers, invoked, arrived, codec, mu, config, wire, chat>>

\* the variables that no step of the client changes
apartVars == <<watch, opVars, codec>>

\* --------------------------------------------------------------- goroutines
\* pc: position; sock: the socket ReadMessage blocks on; ch: the channel
\* the select loaded; msg: the frame being processed; why: why ReadMessage
\* failed, or "auth" for a frame read while the handshake of its socket was
\* pending, or "rejected" for the read loop whose handshake was rejected;
\* stale: a timer callback that was pending when Close() ran; seq: the
\* arrival number of the frame being processed
Proc(pc, sock, ch, msg, why) ==
    [pc |-> pc, sock |-> sock, ch |-> ch, msg |-> msg, why |-> why,
     stale |-> FALSE, seq |-> 0]

NoProc == Proc("none", 0, 0, "", "")

\* whether the observing variables and fields are kept
Ghosts == watch = "all"

\* whether the frames and read loops of a handshake are marked
Marks == watch = "loop"

\* whether the goroutines that call OnMessage are kept, and whether the
\* frames are numbered in the order of their arrival
Handing == watch \in {"order", "stall"}

Numbering == watch = "order"

NProcs == BagCardinality(procs)

\* The goroutines and pending callbacks a timer may add to: where the
\* callback of the ping timer is observed, it gets a place of its own.
ProcBound == IF watch = "ping" THEN MaxProcs + 1 ELSE MaxProcs

\* ------------------------------------------------- the client under the lock
\* The helpers below are the methods that assume the lock is held.  They map
\* a record w to the record after the call: the fields of the client, the
\* channels and sockets it closed, and what the step did (hook calls, socket
\* writes and writes that returned an error, messages handed to OnMessage,
\* goroutines started with go).  writeOk says whether WriteJSON succeeds in
\* this step: a write to a socket whose connection broke returns an error.
World(payload) ==
    [state |-> state, conn |-> conn, done |-> done,
     connectRetryTimer |-> connectRetryTimer, pingTimer |-> pingTimer,
     serverTimeoutTimer |-> serverTimeoutTimer,
     connectRetryIntervalIndex |-> connectRetryIntervalIndex,
     closedSocks |-> closedSocks, closedDone |-> closedDone,
     leakedRetry |-> leakedRetry, panicked |-> panicked,
     hooks |-> <<>>, wrote |-> <<>>, failed |-> <<>>, delivered |-> <<>>,
     spawned |-> <<>>, payload |-> payload, arg |-> payload,
     writeOk |-> TRUE, frame |-> "", config |-> config]

WorldNet(payload, ok) == [World(payload) EXCEPT !.writeOk = ok]

\* the client before onMessage decodes the frame m
WorldFrame(m) == [World(EmptyMap) EXCEPT !.frame = m]

\* The outcomes of WriteJSON.  An error changes nothing in the client (it
\* is logged), so it is drawn only where the writes are observed.
WriteOutcomes == IF watch \in {"all", "write"} THEN BOOLEAN ELSE {TRUE}

\* setState() without the comparison of line 175
setState_always(w, s, nextConnectTime) ==
    [w EXCEPT !.state = s, !.hooks = Append(@, <<s, nextConnectTime>>)]

\* setState(), lines 174-183, with an OnStateChange hook configured
setState(w, s, nextConnectTime) ==
    IF w.state = s THEN w
    ELSE [w EXCEPT !.state = s,
                   !.hooks = Append(@, <<s, nextConnectTime>>)]

reset(w) == [w EXCEPT !.connectRetryIntervalIndex = 0]

clearConnectRetryTimer(w) ==
    IF w.connectRetryTimer.st # "nil"
    THEN [w EXCEPT !.connectRetryTimer = NilTimer]
    ELSE w

clearPingTimer(w) ==
    IF w.pingTimer # "nil" THEN [w EXCEPT !.pingTimer = "nil"] ELSE w

clearServerTimer(w) ==
    IF w.serverTimeoutTimer # "nil"
    THEN [w EXCEPT !.serverTimeoutTimer = "nil"]
    ELSE w

\* scheduleServerTimeout() that leaves a timer that is there alone
scheduleServerTimeout_ifNone(w) ==
    IF w.serverTimeoutTimer # "nil" THEN w
    ELSE [w EXCEPT !.serverTimeoutTimer = "armed"]

scheduleServerTimeout(w) ==
    [clearServerTimer(w) EXCEPT !.serverTimeoutTimer = "armed"]


schedulePing(w) == [clearPingTimer(w) EXCEPT !.pingTimer = "armed"]

\* close(c.done) panics when the channel is closed already
closeDone(w) ==
    IF w.done = 0 THEN w
    ELSE IF w.done \in w.closedDone THEN [w EXCEPT !.panicked = TRUE]
    ELSE [w EXCEPT !.closedDone = @ \cup {w.done}, !.done = 0]

\* disconnect() that closes the socket but keeps the reference to it
disconnect_keepsConn(w) ==
    LET w1 == clearServerTimer(clearPingTimer(clearConnectRetryTimer(w)))
    IN  IF w1.conn # 0
        THEN [closeDone(w1) EXCEPT !.closedSocks = @ \cup {w1.conn}]
        ELSE w1

disconnect(w) ==
    LET w1 == clearServerTimer(clearPingTimer(clearConnectRetryTimer(w)))
    IN  IF w1.conn # 0
        THEN [closeDone(w1) EXCEPT !.closedSocks = @ \cup {w1.conn},
                                   !.conn = 0]
        ELSE w1

\* reconnect() that advances the index without wrapping it
reconnect_noWrap(w) ==
    IF w.connectRetryIntervalIndex + 1 \notin DOMAIN ReconnectIntervals
    THEN [w EXCEPT !.panicked = TRUE]
    ELSE
    LET interval == ReconnectIntervals[w.connectRetryIntervalIndex + 1]
        w1 == setState(w, "Waiting", interval)
    IN  [w1 EXCEPT
           !.leakedRetry = IF w.connectRetryTimer.st = "armed"
                           THEN @ + 1 ELSE @,
           !.connectRetryTimer = [st |-> "armed", iv |-> interval],
           !.connectRetryIntervalIndex = @ + 1]

\* reconnect() that stays at the last entry of the table
reconnect_clamp(w) ==
    IF w.connectRetryIntervalIndex + 1 \notin DOMAIN ReconnectIntervals
    THEN [w EXCEPT !.panicked = TRUE]
    ELSE
    LET interval == ReconnectIntervals[w.connectRetryIntervalIndex + 1]
        w1 == setState(w, "Waiting", interval)
        next == w.connectRetryIntervalIndex + 1
    IN  [w1 EXCEPT
           !.leakedRetry = IF w.connectRetryTimer.st = "armed"
                           THEN @ + 1 ELSE @,
           !.connectRetryTimer = [st |-> "armed", iv |-> interval],
           !.connectRetryIntervalIndex =
               IF next >= Len(ReconnectIntervals)
               THEN Len(ReconnectIntervals) - 1 ELSE next]

\* the table is indexed from 0 in the code; an index outside it panics
reconnect(w) ==
    IF w.connectRetryIntervalIndex + 1 \notin DOMAIN ReconnectIntervals
    THEN [w EXCEPT !.panicked = TRUE]
    ELSE
    LET interval == ReconnectIntervals[w.connectRetryIntervalIndex + 1]
        w1 == setState(w, "Waiting", interval)
        next == w.connectRetryIntervalIndex + 1
    IN  [w1 EXCEPT
           !.leakedRetry = IF w.connectRetryTimer.st = "armed"
                           THEN @ + 1 ELSE @,
           !.connectRetryTimer = [st |-> "armed", iv |-> interval],
           !.connectRetryIntervalIndex =
               IF next >= Len(ReconnectIntervals) THEN 0 ELSE next]

onDisconnected(w) == reconnect(disconnect(w))

\* onAuthenticated() that stores the state without calling the hook
onAuthenticated_noHook(w) == reset([w EXCEPT !.state = "Authenticated"])

onAuthenticated(w) == reset(setState(w, "Authenticated", "nil"))

\* the error of WriteJSON is logged and nothing else (lines 351-353)
sendRaw(w, message) ==
    IF w.conn = 0 THEN w
    ELSE IF w.writeOk
         THEN [w EXCEPT !.wrote = Append(@, <<w.conn, message>>)]
         ELSE [w EXCEPT !.failed = Append(@, <<w.conn, message>>)]

\* send() without the check of the state
send_noStateCheck(w, record) ==
    LET w1 == schedulePing(w)
        p  == w1.payload
        w2 == [w1 EXCEPT !.payload =
                  [k \in DOMAIN p \cup {"record"} |->
                      IF k = "record" THEN record ELSE p[k]]]
    IN  sendRaw(w2, record)

send(w, record) ==
    IF w.state # "Authenticated" THEN w
    ELSE LET w1 == schedulePing(w)
             p  == w1.payload
             w2 == [w1 EXCEPT !.payload =
                       [k \in DOMAIN p \cup {"record"} |->
                           IF k = "record" THEN record ELSE p[k]]]
         IN  sendRaw(w2, record)

sendOpenFloodgates(w) ==
    send([w EXCEPT !.payload = EmptyMap], "msg_c2g_open_floodgates")

\* onMessage that hands a record other than the result to the consumer
\* during the handshake as well
dispatch_forwardsUnexpected(w, m) ==
    IF w.state = "Authenticating" /\ m \in {"result0", "resultBad"}
    THEN IF m = "result0"
         THEN sendOpenFloodgates(onAuthenticated(w))
         ELSE [disconnect(w) EXCEPT
                 !.spawned = Append(@, Proc("go_onDisconnected",
                                            IF Ghosts THEN w.conn ELSE 0,
                                            0, "", ""))]
    ELSE IF m # "pong"
         THEN [w EXCEPT !.delivered = Append(@, m)]
         ELSE w

\* the part of onMessage after the record field was decoded (lines 227-250)
dispatch(w, m) ==
    IF w.state = "Authenticating"
    THEN IF m \in {"result0", "resultBad"}
         THEN IF m = "result0"
              THEN sendOpenFloodgates(onAuthenticated(w))
              ELSE [disconnect(w) EXCEPT
                      !.spawned = Append(@, Proc("go_onDisconnected",
                                                 IF Ghosts THEN w.conn ELSE 0,
                                                 0, "", ""))]
         ELSE w
    ELSE IF m # "pong"
         THEN [w EXCEPT !.delivered = Append(@, m)]
         ELSE w

\* the bodies of Close() and Connect() between Lock and Unlock
Close_(w) == setState(disconnect(reset(w)), "Closed", "nil")

\* Connect() without the check of the state
Connect_noGuard(w) ==
    [clearConnectRetryTimer(w) EXCEPT
       !.spawned = Append(@, Proc("run", 0, 0, "", ""))]

Connect_(w) ==
    IF w.state = "Waiting" \/ w.state = "Closed"
    THEN [clearConnectRetryTimer(w) EXCEPT
            !.spawned = Append(@, Proc("run", 0, 0, "", ""))]
    ELSE w

\* the callback of the pre-reconnect hook taking over the whole new Config
storeCredentials_whole(w, newConfig) ==
    IF newConfig.absent THEN w
    ELSE [w EXCEPT !.config = newConfig]

\* lines 307-312: the credentials of a non-nil new Config are stored
storeCredentials(w, newConfig) ==
    IF newConfig.absent THEN w
    ELSE [w EXCEPT !.config.SessionID = newConfig.SessionID,
                   !.config.UserID = newConfig.UserID]

\* the credentials in the msg_c2g_connect record of onOpen(), lines 199-205
ConnectMsg(cfg) ==
    [k \in {"user_id", "cookie"} |->
        IF k = "user_id" THEN cfg.UserID
        ELSE EncodeToString(Bytes(cfg.SessionID))]

\* ------------------------------------------------------------ bookkeeping
RECURSIVE SeqToBag(_)
SeqToBag(s) ==
    IF s = <<>> THEN EmptyBag ELSE SetToBag({Head(s)}) (+) SeqToBag(Tail(s))

\* what a step did: the operation, whether it was a timer callback that was
\* pending when Close() ran, whether it was a Close() right after a Close(),
\* state and backoff index before it, the hook calls, the socket writes, the
\* records handed to OnMessage, the payload map after it, the mark and the
\* frame of the goroutine that took the step (for the step that decodes a
\* frame, that frame), the writes that returned an error, and the payload
\* map the step was called with
Quiet ==
    [op |-> "", stale |-> FALSE, twice |-> FALSE, preState |-> "",
     preIdx |-> 0, hooks |-> <<>>, wrote |-> <<>>, delivered |-> <<>>,
     payload |-> EmptyMap, why |-> "", msg |-> "", failed |-> <<>>,
     arg |-> EmptyMap]

\* the steps that call send(): Send(), API.SubscribeToQueue, sendPing() and,
\* for msg_c2g_open_floodgates, onMessage
Senders == {"Send", "SubscribeToQueue", "sendPing", "onMessage"}

Watched(op, w) ==
    \/ watch = "all"
    \/ watch = op
    \/ watch = "hooks" /\ w.hooks # <<>>
    \/ watch = "backoff" /\ op = "run_onDisconnected"
    \/ watch = "loop" /\ op \in {"ReadMessage", "onMessage"}
    \/ watch = "write" /\ op = "Send"
    \/ watch = "stall" /\ op \in {"run", "onMessageTimeout"}
    \/ watch = "ping" /\ op \in Senders
    \/ watch = "creds" /\ op \in {"preReconnectOk", "onOpen"}

Obs(op, d, w) ==
    IF Watched(op, w)
    THEN [op |-> op, stale |-> d.stale,
          twice |-> (op = "Close" /\ last.op = "Close"),
          preState |-> state, preIdx |-> connectRetryIntervalIndex,
          hooks |-> w.hooks, wrote |-> w.wrote, delivered |-> w.delivered,
          payload |-> w.payload, why |-> d.why,
          msg |-> IF w.frame # "" THEN w.frame ELSE d.msg,
          failed |-> w.failed, arg |-> w.arg]
    ELSE Quiet

\* The sockets and channels that the client or a goroutine still refers to.
\* What is known about the others (that they were closed) is dropped, and
\* the dialer hands out the first one nobody refers to, so that a run may
\* dial any number of times.
Live(b, c, dn) ==
    ({d.sock : d \in BagToSet(b)} \cup {d.ch : d \in BagToSet(b)}
       \cup {c, dn}) \ {0}

FreeSocks ==
    (1 .. MaxSockets)
      \ (Live(procs, conn, done) \cup {h.sock : h \in BagToSet(handlers)})

nextSock == CHOOSE s \in FreeSocks : \A t \in FreeSocks : s <= t

\* The dial failures in a row, counted by the calls of onDisconnected() from
\* line 142.  Close() and the step that enters Authenticated reset the index
\* and start the count again; any other call of reconnect() ends it, and so
\* does a failure after the one that wrapped the index.
MaxFails == Len(ReconnectIntervals) + 1

Resets(op, w) ==
    \/ op = "Close"
    \/ op = "onMessage" /\ state # "Authenticated" /\ w.state = "Authenticated"

Reconnects(op) ==
    op \in {"run_onDisconnected", "loop_onDisconnected", "go_onDisconnected",
            "onServerTimeout", "preReconnectErr"}

\* The run that starts with a consumer's Connect() on an idle client (no
\* goroutine, no timer callback pending) and in which, since then, no dial
\* or read failed, no timer declared the server dead, the handshake was not
\* rejected and Close() was not called.
Off == <<"off">>

Idle ==
    /\ state \in {"Closed", "Waiting"}
    /\ procs = EmptyBag
    /\ leakedRetry = 0

Rejects(op, d) ==
    op = "onMessage" /\ state = "Authenticating" /\ d.msg = "resultBad"

HookStates(w) == [i \in DOMAIN w.hooks |-> w.hooks[i][1]]

\* the goroutine of line 248 for the frame number seq of the socket sock
Handler(sock, seq) == [sock |-> sock, seq |-> seq]

Track(op, d, w) ==
    /\ fails' = IF watch # "backoff" THEN fails
                ELSE IF Resets(op, w) THEN 0
                ELSE IF op = "run_onDisconnected"
                          /\ fails \in 0 .. (MaxFails - 1)
                     THEN fails + 1
                ELSE IF Reconnects(op) THEN -1
                ELSE fails
    /\ scenario' = IF watch # "scenario" THEN scenario
                   ELSE IF op = "Connect" /\ Idle THEN <<>>
                   ELSE IF op = "Close" \/ Reconnects(op) \/ Rejects(op, d)
                        THEN Off
                   ELSE IF scenario = Off THEN Off
                   ELSE scenario \o HookStates(w)
    /\ wanted' = IF watch = "subs" /\ op = "SubscribeToQueue"
                 THEN wanted \cup {w.payload["queues_with_results"]}
                 ELSE wanted
    /\ subscribed' =
         IF watch # "subs" THEN subscribed
         ELSE (IF w.conn = conn THEN subscribed ELSE {})
                \cup (IF op = "SubscribeToQueue" /\ w.wrote # <<>>
                      THEN {w.payload["queues_with_results"]} ELSE {})
    /\ arrived' = IF Numbering /\ op = "recv" THEN arrived + 1 ELSE arrived
    /\ (Handing /\ w.delivered # <<>>)
          => BagCardinality(handlers) < MaxHandlers
    /\ handlers' = IF Handing /\ w.delivered # <<>>
                   THEN handlers (+) SetToBag({Handler(d.sock, d.seq)})
                   ELSE handlers
    /\ invoked' = IF Numbering /\ w.conn # conn
                  THEN SelectSeq(invoked, LAMBDA f : f[1] # w.conn)
                  ELSE invoked
    /\ wire' = IF watch # "wire" THEN wire
               ELSE IF w.conn # conn THEN <<>>
               ELSE LET all == wire \o [i \in DOMAIN w.wrote |-> w.wrote[i][2]]
                    IN  IF Len(all) > MaxWire THEN SubSeq(all, 1, MaxWire)
                        ELSE all
    /\ chat' = IF op # "SendChatMessage" THEN chat
               ELSE [chat EXCEPT
                       !.pending = @ \ {w.arg["op_id"]},
                       !.sent = IF w.wrote # <<>>
                                THEN Append(@, w.payload["op_id"]) ELSE @]

\* store the client after a locked section; d is the goroutine that ran it
\* (NoProc for a consumer call), nd what becomes of it (NoProc: it returned)
Store(op, d, nd, w) ==
    /\ state' = w.state
    /\ conn' = w.conn
    /\ done' = w.done
    /\ connectRetryTimer' = w.connectRetryTimer
    /\ pingTimer' = w.pingTimer
    /\ serverTimeoutTimer' = w.serverTimeoutTimer
    /\ connectRetryIntervalIndex' = w.connectRetryIntervalIndex
    /\ leakedRetry' = w.leakedRetry
    /\ panicked' = w.panicked
    /\ procs' = ((procs (-) (IF d = NoProc THEN EmptyBag ELSE SetToBag({d})))
                   (+) (IF nd = NoProc THEN EmptyBag ELSE SetToBag({nd})))
                   (+) SeqToBag(w.spawned)
    /\ closedSocks' = w.closedSocks \cap Live(procs', w.conn, w.done)
    /\ closedDone' = w.closedDone \cap Live(procs', w.conn, w.done)
    /\ last' = Obs(op, d, w)
    /\ Track(op, d, w)
    /\ config' = w.config
    /\ UNCHANGED apartVars

\* a section that runs from c.mu.Lock() to c.mu.Unlock(): it starts when the
\* mutex is free, or is the rest of the section of the goroutine that holds
\* it, and leaves the mutex free
Commit(op, d, nd, w) ==
    /\ mu = 0 \/ d.pc = "dial"
    /\ Store(op, d, nd, w)
    /\ mu' = 0

InitClient(wt) ==
    /\ watch = wt
    /\ state = "Closed"
    /\ conn = 0
    /\ done = 0
    /\ connectRetryTimer = NilTimer
    /\ pingTimer = "nil"
    /\ serverTimeoutTimer = "nil"
    /\ connectRetryIntervalIndex = 0
    /\ closedSocks = {}
    /\ closedDone = {}
    /\ leakedRetry = 0
    /\ procs = EmptyBag
    /\ panicked = FALSE
    /\ last = Quiet
    /\ userClosed = FALSE
    /\ sinceTimeout = FALSE
    /\ reconnectedFor = {}
    /\ fails = 0
    /\ scenario = Off
    /\ wanted = {}
    /\ subscribed = {}
    /\ ID = OpIDInitial
    /\ opMu = 0
    /\ callers = [c \in 1 .. MaxCallers |-> [pc |-> "idle", result |-> 0,
                                             tmp |-> 0]]
    /\ issued = <<>>
    /\ handlers = EmptyBag
    /\ invoked = <<>>
    /\ arrived = 0
    /\ mu = 0
    /\ config = InitialConfig
    /\ wire = <<>>
    /\ chat = [drawn |-> <<>>, pending |-> {}, sent |-> <<>>]

InitW(wt) == InitClient(wt) /\ codec = CodecIdle

Init == InitW("all")

Hist(uc, st, rf) ==
    IF Ghosts
    THEN /\ userClosed' = uc
         /\ sinceTimeout' = st
         /\ reconnectedFor' = rf \cap Live(procs', conn', done')
    ELSE UNCHANGED <<userClosed, sinceTimeout, reconnectedFor>>

\* ------------------------------------------------------------ consumer calls
\* Connect(), lines 104-112
Connect ==
    /\ ~panicked
    /\ state \in {"Waiting", "Closed"} => NProcs < MaxProcs
    /\ Commit("Connect", NoProc, NoProc, Connect_(World(EmptyMap)))
    /\ Hist(FALSE, FALSE, reconnectedFor)

\* Close(), lines 115-122; timer callbacks that already fired stay pending
MarkStale(b) ==
    LET S == BagToSet(b)
        T == {d \in S : d.pc \in {"onServerTimeout", "sendPing"}}
        mark(d) == [d EXCEPT !.stale = TRUE]
        M == {d \in S : d \notin T} \cup {mark(d) : d \in T}
    IN  IF ~Ghosts THEN b ELSE
        [e \in M |->
           (IF e \in S /\ e \notin T THEN b[e] ELSE 0)
           + (IF e.stale /\ [e EXCEPT !.stale = FALSE] \in T
              THEN b[[e EXCEPT !.stale = FALSE]] ELSE 0)
           + (IF e.stale /\ e \in T THEN b[e] ELSE 0)]

Close ==
    /\ ~panicked
    /\ mu = 0
    /\ UNCHANGED <<mu, config>>
    /\ LET w == Close_(World(EmptyMap))
       IN  /\ state' = w.state
           /\ conn' = w.conn
           /\ done' = w.done
           /\ connectRetryTimer' = w.connectRetryTimer
           /\ pingTimer' = w.pingTimer
           /\ serverTimeoutTimer' = w.serverTimeoutTimer
           /\ connectRetryIntervalIndex' = w.connectRetryIntervalIndex
           /\ leakedRetry' = w.leakedRetry
           /\ panicked' = w.panicked
           /\ procs' = MarkStale(procs)
           /\ closedSocks' = w.closedSocks \cap Live(procs', w.conn, w.done)
           /\ closedDone' = w.closedDone \cap Live(procs', w.conn, w.done)
           /\ last' = Obs("Close", NoProc, w)
           /\ Track("Close", NoProc, w)
           /\ UNCHANGED apartVars
    /\ Hist(TRUE, FALSE, reconnectedFor)

\* Send(record, payload), lines 328-332
Send(record, payload) ==
    /\ ~panicked
    /\ \E ok \in WriteOutcomes :
         Commit("Send", NoProc, NoProc, send(WorldNet(payload, ok), record))
    /\ Hist(userClosed, sinceTimeout, reconnectedFor)

\* API.SubscribeToQueue(queue, opID), src/unnamed/part_004 lines 560-574:
\* the subscription is given to Send() and kept nowhere
SubscribeToQueue(queue) ==
    /\ ~panicked
    /\ \E ok \in WriteOutcomes :
         Commit("SubscribeToQueue", NoProc, NoProc,
                send(WorldNet(SubscribePayload(queue), ok),
                     "msg_c2g_subscribe"))
    /\ Hist(userClosed, sinceTimeout, reconnectedFor)

\* ------------------------------------------------------------------- run()
\* lines 125-150: the guard, the dial (with the mutex held) and what follows
\* it up to the unlock
run(d, dialOk) ==
    /\ ~panicked
    /\ d.pc = "run"
    /\ IF state \notin {"Waiting", "Closed"}
       THEN /\ dialOk
            /\ Commit("run", d, NoProc, World(EmptyMap))
            /\ Hist(userClosed, sinceTimeout, reconnectedFor)
               ELSE LET w == setState(World(EmptyMap), "Connecting", "nil")
            IN  IF dialOk
                THEN /\ FreeSocks # {}
                     /\ Commit("run", d, [d EXCEPT !.pc = "onOpen"],
                               scheduleServerTimeout(
                                   [w EXCEPT !.conn = nextSock,
                                             !.done = nextSock]))
                     /\ Hist(userClosed, FALSE, reconnectedFor)
                ELSE /\ Commit("run", d, [d EXCEPT !.pc = "run_onDisconnected"],
                               w)
                     /\ Hist(userClosed, FALSE, reconnectedFor)
                 
\* run() in the steps the scheduler can tell apart.  Lines 125-131: the lock
\* is taken, the guard is checked and the state set to Connecting; the
\* goroutine then calls dialer.Dial (line 138) without unlocking.
runLock(d) ==
    /\ ~panicked
    /\ d.pc = "run"
    /\ mu = 0
    /\ IF state \notin {"Waiting", "Closed"}
       THEN /\ Commit("run", d, NoProc, World(EmptyMap))
            /\ Hist(userClosed, sinceTimeout, reconnectedFor)
       ELSE /\ Store("run", d, [d EXCEPT !.pc = "dial"],
                     setState(World(EmptyMap), "Connecting", "nil"))
            /\ mu' = 1
            /\ Hist(userClosed, FALSE, reconnectedFor)

\* lines 138-150: Dial returns; on an error the mutex is unlocked (line 141)
\* and onDisconnected() follows, else the socket is stored, the server
\* timeout armed and the mutex unlocked (line 150)
runDial(d, dialOk) ==
    /\ ~panicked
    /\ d.pc = "dial"
    /\ IF dialOk
       THEN /\ FreeSocks # {}
            /\ Commit("dial", d, [d EXCEPT !.pc = "onOpen"],
                      scheduleServerTimeout(
                          [World(EmptyMap) EXCEPT !.conn = nextSock,
                                                  !.done = nextSock]))
       ELSE Commit("dial", d, [d EXCEPT !.pc = "run_onDisconnected"],
                   World(EmptyMap))
    /\ Hist(userClosed, sinceTimeout, reconnectedFor)

\* onDisconnected(), lines 253-259, called from run() after a failed dial
\* (line 142), from the read loop (line 166), from the goroutine started on
\* an authentication failure (line 240) and from onServerTimeout (line 370)
DiscPcs == {"run_onDisconnected", "loop_onDisconnected", "go_onDisconnected",
            "onServerTimeout"}

\* the socket whose loss a call of onDisconnected() reports: the one the
\* server-timeout declares dead, the one whose read failed, the one whose
\* authentication was rejected; 0 after a failed dial
Victim(d) == IF d.pc = "onServerTimeout" THEN conn ELSE d.sock

\* the read loop of the current socket waits for a frame and nothing else is
\* going on: the server is silent
Silent ==
    /\ \E d \in BagToSet(procs) : d.pc = "ReadMessage" /\ d.sock = conn
    /\ \A d \in BagToSet(procs) : d.pc \in {"ReadMessage", "onServerTimeout"}

OnDisconnected(d) ==
    /\ ~panicked
    /\ d.pc \in DiscPcs
    /\ Commit(d.pc, d, NoProc, onDisconnected(World(EmptyMap)))
    /\ Hist(userClosed,
            (d.pc = "onServerTimeout" /\ state = "Authenticated" /\ Silent)
               \/ sinceTimeout,
            reconnectedFor \cup ({Victim(d)} \ {0}))

\* onOpen(), lines 185-207; the content of the handshake record is kept
\* where the credentials are observed
connectMsg == IF watch = "creds" THEN ConnectMsg(config) ELSE EmptyMap

onOpen(d) ==
    /\ ~panicked
    /\ d.pc = "onOpen"
    /\ \E ok \in WriteOutcomes :
         Commit("onOpen", d, [d EXCEPT !.pc = "loop"],
                sendRaw(setState(WorldNet(connectMsg, ok), "Authenticating",
                                 "nil"),
                        "msg_c2g_connect"))
    /\ Hist(userClosed, sinceTimeout, reconnectedFor)

Unlocked(op, d, nd) ==
    /\ procs' = (procs (-) SetToBag({d}))
                  (+) (IF nd = NoProc THEN EmptyBag ELSE SetToBag({nd}))
    /\ last' = Obs(op, d, World(EmptyMap))
    /\ closedSocks' = closedSocks \cap Live(procs', conn, done)
    /\ closedDone' = closedDone \cap Live(procs', conn, done)
    /\ reconnectedFor' = reconnectedFor \cap Live(procs', conn, done)
    /\ Track(op, d, World(EmptyMap))
    /\ UNCHANGED apartVars
    /\ UNCHANGED <<state, conn, done, connectRetryTimer, pingTimer,
                   serverTimeoutTimer, connectRetryIntervalIndex,
                   leakedRetry, userClosed, sinceTimeout, mu, config>>

\* line 156: c.conn is loaded without the mutex; ReadMessage on a nil
\* connection dereferences nil
LoopRead(d) ==
    /\ ~panicked
    /\ d.pc = "loop"
    /\ IF conn = 0
       THEN /\ panicked' = TRUE
            /\ Unlocked("ReadMessage", d, d)
       ELSE /\ Unlocked("ReadMessage", d, [d EXCEPT !.pc = "ReadMessage",
                                                    !.sock = conn])
            /\ UNCHANGED panicked

\* ReadMessage returns a frame
Recv(d) ==
    /\ ~panicked
    /\ d.pc = "ReadMessage"
    /\ d.sock \notin closedSocks
    /\ Numbering => arrived < MaxFrames
    /\ Unlocked("recv", d,
                [d EXCEPT !.pc = "onMessage",
                          !.sock = IF Numbering THEN d.sock ELSE 0,
                          !.seq = IF Numbering THEN arrived + 1 ELSE 0,
                          !.why = IF Marks /\ state = "Authenticating"
                                          /\ d.sock = conn
                                  THEN "auth" ELSE ""])
    /\ UNCHANGED panicked

\* ReadMessage returns an error: the client closed the socket, or the
\* network failed
ReadErr(d) ==
    /\ ~panicked
    /\ d.pc = "ReadMessage"
    /\ Unlocked("readErr", d,
                IF Ghosts
                THEN [d EXCEPT !.pc = "select",
                               !.why = IF d.sock \in closedSocks
                                       THEN "closed" ELSE "network"]
                ELSE [d EXCEPT !.pc = "select", !.sock = 0])
    /\ UNCHANGED panicked

\* lines 159-160: the select evaluates c.done (without the mutex) ...
SelectLoad(d) ==
    /\ ~panicked
    /\ d.pc = "select"
    /\ Unlocked("select", d, [d EXCEPT !.pc = "selected", !.ch = done])
    /\ UNCHANGED panicked

\* ... and receives from it when it is closed; a nil channel is never ready
SelectChoose(d) ==
    /\ ~panicked
    /\ d.pc = "selected"
    /\ IF d.ch # 0 /\ d.ch \in closedDone
       THEN Unlocked("stopping", d, NoProc)
       ELSE Unlocked("readError", d,
                     [d EXCEPT !.pc = "loop_onDisconnected", !.ch = 0])
    /\ UNCHANGED panicked

\* lines 215-225 taking every frame for a record
Decodes_always(m) == TRUE

\* lines 215-225: the frame is JSON and has a string record field
Decodes(m) == m # "malformed"

\* onMessage, lines 210-225: rearm the server timeout, then decode the
\* frame m that ReadMessage returned
onMessageTimeout(d, m) ==
    /\ ~panicked
    /\ d.pc = "onMessage"
    /\ Commit("onMessageTimeout", d,
              IF ~Decodes(m)
              THEN [d EXCEPT !.pc = "loop", !.why = "", !.sock = 0,
                             !.seq = 0]
              ELSE [d EXCEPT !.pc = "onMessage2", !.msg = m],
              scheduleServerTimeout(WorldFrame(m)))
    /\ Hist(userClosed, sinceTimeout, reconnectedFor)

\* onMessage, lines 227-250
onMessage(d) ==
    /\ ~panicked
    /\ d.pc = "onMessage2"
    /\ (state = "Authenticating" /\ d.msg = "resultBad") => NProcs < MaxProcs
    /\ \E ok \in WriteOutcomes :
         Commit("onMessage", d,
                [d EXCEPT !.pc = "loop", !.msg = "", !.sock = 0, !.seq = 0,
                          !.why = IF Marks /\ state = "Authenticating"
                                          /\ d.msg = "resultBad"
                                  THEN "rejected" ELSE ""],
                dispatch(WorldNet(EmptyMap, ok), d.msg))
    /\ Hist(userClosed, sinceTimeout, reconnectedFor)

\* -------------------------------------------------------------------- timers
TimerFires(op, nd) ==
    /\ ~panicked
    /\ NProcs < ProcBound
    /\ procs' = procs (+) SetToBag({nd})
    /\ last' = Obs(op, NoProc, World(EmptyMap))
    /\ Track(op, NoProc, World(EmptyMap))
    /\ UNCHANGED <<state, conn, done, connectRetryIntervalIndex, closedSocks,
                   closedDone, panicked, userClosed, reconnectedFor,
                   apartVars, mu, config>>

\* the server-timeout timer expires: onServerTimeout starts (line 358)
ServerTimerFires ==
    /\ serverTimeoutTimer = "armed"
    /\ serverTimeoutTimer' = "fired"
    /\ TimerFires("serverTimer", Proc("onServerTimeout", 0, 0, "", ""))
    /\ UNCHANGED <<pingTimer, connectRetryTimer, leakedRetry, sinceTimeout>>

\* the ping timer expires: sendPing starts (line 375)
PingTimerFires ==
    /\ pingTimer = "armed"
    /\ pingTimer' = "fired"
    /\ TimerFires("pingTimer", Proc("sendPing", 0, 0, "", ""))
    /\ UNCHANGED <<serverTimeoutTimer, connectRetryTimer, leakedRetry,
                   sinceTimeout>>

\* the retry timer expires (line 298): OnPreReconnect runs and calls the
\* callback with an error or without one
RetryPc(o) == IF o = "err" THEN "preReconnectErr" ELSE "preReconnectOk"

RetryTimerFires(o) ==
    /\ connectRetryTimer.st = "armed"
    /\ connectRetryTimer' = [st |-> "fired", iv |-> 0]
    /\ TimerFires("retryTimer", Proc(RetryPc(o), 0, 0, "", ""))
    /\ sinceTimeout' = FALSE
    /\ UNCHANGED <<pingTimer, serverTimeoutTimer, leakedRetry>>

\* a retry timer that reconnect() overwrote without stopping it expires
LeakedRetryFires(o) ==
    /\ leakedRetry > 0
    /\ leakedRetry' = leakedRetry - 1
    /\ TimerFires("leakedRetryTimer", Proc(RetryPc(o), 0, 0, "", ""))
    /\ sinceTimeout' = FALSE
    /\ UNCHANGED <<pingTimer, serverTimeoutTimer, connectRetryTimer>>

\* sendPing(), lines 385-391
sendPing(d) ==
    /\ ~panicked
    /\ d.pc = "sendPing"
    /\ \E ok \in WriteOutcomes :
         Commit("sendPing", d, NoProc,
                send(WorldNet(EmptyMap, ok), "msg_c2g_ping"))
    /\ Hist(userClosed, sinceTimeout, reconnectedFor)

\* the callback given to OnPreReconnect, error branch, lines 300-305
preReconnectErr(d) ==
    /\ ~panicked
    /\ d.pc = "preReconnectErr"
    /\ connectRetryTimer.st = "armed" => leakedRetry < MaxLeaked
    /\ Commit("preReconnectErr", d, NoProc, reconnect(World(EmptyMap)))
    /\ Hist(userClosed, sinceTimeout, reconnectedFor)

\* the callback given to OnPreReconnect, lines 307-313: the credentials are
\* stored, then Connect() is called
preReconnectOk(d) ==
    /\ ~panicked
    /\ d.pc = "preReconnectOk"
    /\ Commit("preReconnectOk", d, NoProc, Connect_(World(EmptyMap)))
    /\ Hist(userClosed, sinceTimeout, reconnectedFor)

\* the same callback called with the Config newConfig, or with nil
preReconnectOkWith(d, newConfig) ==
    /\ ~panicked
    /\ d.pc = "preReconnectOk"
    /\ Commit("preReconnectOk", d, NoProc,
              Connect_(storeCredentials(World(newConfig), newConfig)))
    /\ Hist(userClosed, sinceTimeout, reconnectedFor)

Next ==
    \/ Connect
    \/ Close
    \/ \E r \in SendRecords, p \in SendPayloads : Send(r, p)
    \/ \E q \in Queues : SubscribeToQueue(q)
    \/ \E d \in BagToSet(procs), ok \in BOOLEAN : run(d, ok)
    \/ \E d \in BagToSet(procs) : OnDisconnected(d)
    \/ \E d \in BagToSet(procs) : onOpen(d)
    \/ \E d \in BagToSet(procs) : LoopRead(d)
    \/ \E d \in BagToSet(procs) : Recv(d)
    \/ \E d \in BagToSet(procs) : ReadErr(d)
    \/ \E d \in BagToSet(procs) : SelectLoad(d)
    \/ \E d \in BagToSet(procs) : SelectChoose(d)
    \/ \E d \in BagToSet(procs), m \in Frames : onMessageTimeout(d, m)
    \/ \E d \in BagToSet(procs) : onMessage(d)
    \/ ServerTimerFires
    \/ PingTimerFires
    \/ \E o \in HookOutcomes : RetryTimerFires(o)
    \/ \E o \in HookOutcomes : LeakedRetryFires(o)
    \/ \E d \in BagToSet(procs) : sendPing(d)
    \/ \E d \in BagToSet(procs) : preReconnectErr(d)
    \/ \E d \in BagToSet(procs) : preReconnectOk(d)

Spec == Init /\ [][Next]_vars

\* the same program, observing only the steps of one operation
SpecClose == InitW("Close") /\ [][Next]_vars

SpecConnect == InitW("Connect") /\ [][Next]_vars

SpecSend == InitW("Send") /\ [][Next]_vars

SpecHooks == InitW("hooks") /\ [][Next]_vars

SpecBackoff == InitW("backoff") /\ [][Next]_vars

SpecScenario == InitW("scenario") /\ [][Next]_vars

SpecSubs == InitW("subs") /\ [][Next]_vars

SpecDispatch == InitW("onMessage") /\ [][Next]_vars

SpecWrite == InitW("write") /\ [][Next]_vars

SpecDecode == InitW("onMessageTimeout") /\ [][Next]_vars


\* the same program, observing the read loop and marking handshakes
SpecLoop == InitW("loop") /\ [][Next]_vars

\* ------------------------------------------------- the consumer's OnMessage
\* A goroutine started at line 248 calls the hook.  The hook of
\* API.ConnectMsgStream (src/unnamed/part_004, lines 504-539) sends the chat
\* payload to the consumer's channel and blocks until it is received, so the
\* call may come at any time, or never.
OnMessageCall(h) ==
    /\ ~panicked
    /\ h \in BagToSet(handlers)
    /\ handlers' = handlers (-) SetToBag({h})
    /\ invoked' = IF Numbering THEN Append(invoked, <<h.sock, h.seq>>)
                  ELSE invoked
    /\ UNCHANGED <<state, conn, done, connectRetryTimer, pingTimer,
                   serverTimeoutTimer, connectRetryIntervalIndex,
                   closedSocks, closedDone, leakedRetry, procs, panicked,
                   last, userClosed, sinceTimeout, reconnectedFor, fails,
                   scenario, wanted, subscribed, arrived, apartVars, mu,
                   config, wire, chat>>

NextHanding ==
    \/ Next
    \/ \E h \in BagToSet(handlers) : OnMessageCall(h)

\* the same program with the goroutines that call OnMessage, the frames
\* numbered in the order in which ReadMessage returned them
SpecOrder == InitW("order") /\ [][NextHanding]_vars

\* The client as API.ConnectMsgStream configures it (src/unnamed/part_004,
\* lines 494-543): OnPreReconnect is the default hook of NewWebSocketClient
\* (lines 90-94), which never reports an error, so the retry callback always
\* takes the branch of lines 307-313 and no retry timer is overwritten.
NextDefaultHook ==
    \/ Connect
    \/ Close
    \/ \E r \in SendRecords, p \in SendPayloads : Send(r, p)
    \/ \E q \in Queues : SubscribeToQueue(q)
    \/ \E d \in BagToSet(procs), ok \in BOOLEAN : run(d, ok)
    \/ \E d \in BagToSet(procs) : OnDisconnected(d)
    \/ \E d \in BagToSet(procs) : onOpen(d)
    \/ \E d \in BagToSet(procs) : LoopRead(d)
    \/ \E d \in BagToSet(procs) : Recv(d)
    \/ \E d \in BagToSet(procs) : ReadErr(d)
    \/ \E d \in BagToSet(procs) : SelectLoad(d)
    \/ \E d \in BagToSet(procs) : SelectChoose(d)
    \/ \E d \in BagToSet(procs), m \in Frames : onMessageTimeout(d, m)
    \/ \E d \in BagToSet(procs) : onMessage(d)
    \/ ServerTimerFires
    \/ PingTimerFires
    \/ RetryTimerFires("ok")
    \/ \E d \in BagToSet(procs) : sendPing(d)
    \/ \E d \in BagToSet(procs) : preReconnectOk(d)

\* that client with the goroutines that call OnMessage, observing the dial
\* and the step that rearms the server timeout
NextStall ==
    \/ NextDefaultHook
    \/ \E h \in BagToSet(handlers) : OnMessageCall(h)

SpecStall == InitW("stall") /\ [][NextStall]_vars

\* that client, observing the steps that call send()
SpecPing == InitW("ping") /\ [][NextDefaultHook]_vars

\* that client with the dial of run() as a step of its own, so that the
\* calls and callbacks made while a dial is in flight are seen
NextDial ==
    \/ Connect
    \/ Close
    \/ \E r \in SendRecords, p \in SendPayloads : Send(r, p)
    \/ \E q \in Queues : SubscribeToQueue(q)
    \/ \E d \in BagToSet(procs) : runLock(d)
    \/ \E d \in BagToSet(procs), ok \in BOOLEAN : runDial(d, ok)
    \/ \E d \in BagToSet(procs) : OnDisconnected(d)
    \/ \E d \in BagToSet(procs) : onOpen(d)
    \/ \E d \in BagToSet(procs) : LoopRead(d)
    \/ \E d \in BagToSet(procs) : Recv(d)
    \/ \E d \in BagToSet(procs) : ReadErr(d)
    \/ \E d \in BagToSet(procs) : SelectLoad(d)
    \/ \E d \in BagToSet(procs) : SelectChoose(d)
    \/ \E d \in BagToSet(procs), m \in Frames : onMessageTimeout(d, m)
    \/ \E d \in BagToSet(procs) : onMessage(d)
    \/ ServerTimerFires
    \/ PingTimerFires
    \/ RetryTimerFires("ok")
    \/ \E d \in BagToSet(procs) : sendPing(d)
    \/ \E d \in BagToSet(procs) : preReconnectOk(d)

SpecDial == InitW("dial") /\ [][NextDial]_vars

\* that client with a pre-reconnect hook that hands a Config or nil to its
\* callback, observing the callback and the handshake
NextCreds ==
    \/ Connect
    \/ Close
    \/ \E r \in SendRecords, p \in SendPayloads : Send(r, p)
    \/ \E q \in Queues : SubscribeToQueue(q)
    \/ \E d \in BagToSet(procs), ok \in BOOLEAN : run(d, ok)
    \/ \E d \in BagToSet(procs) : OnDisconnected(d)
    \/ \E d \in BagToSet(procs) : onOpen(d)
    \/ \E d \in BagToSet(procs) : LoopRead(d)
    \/ \E d \in BagToSet(procs) : Recv(d)
    \/ \E d \in BagToSet(procs) : ReadErr(d)
    \/ \E d \in BagToSet(procs) : SelectLoad(d)
    \/ \E d \in BagToSet(procs) : SelectChoose(d)
    \/ \E d \in BagToSet(procs), m \in Frames : onMessageTimeout(d, m)
    \/ \E d \in BagToSet(procs) : onMessage(d)
    \/ ServerTimerFires
    \/ PingTimerFires
    \/ RetryTimerFires("ok")
    \/ \E d \in BagToSet(procs) : sendPing(d)
    \/ \E d \in BagToSet(procs), nc \in HookConfigs : preReconnectOkWith(d, nc)

SpecCreds == InitW("creds") /\ [][NextCreds]_vars

\* ------------------------------------------------- API.SendChatMessage
\* src/unnamed/part_004 lines 576-590.  The message map is built first:
\* i.opID.GetNew() (src/unnamed/part_005 lines 16-24) runs under the mutex of
\* the counter and returns its value.  A second caller may draw before the
\* first has called Send().
chatOnly ==
    <<state, conn, done, connectRetryTimer, pingTimer, serverTimeoutTimer,
      connectRetryIntervalIndex, closedSocks, closedDone, leakedRetry,
      procs, panicked, last, userClosed, sinceTimeout,
      reconnectedFor, fails, scenario, wanted, subscribed, watch,
      handlers, invoked, arrived, opMu, callers, issued, mu, config, wire,
      codec>>

\* a GetNew() that returns the counter without incrementing it
SendChatMessage_GetNew_noInc ==
    /\ ~panicked
    /\ Len(chat.drawn) < MaxChats
    /\ ID' = ID
    /\ chat' = [chat EXCEPT !.drawn = Append(@, ID),
                            !.pending = @ \cup {ID}]
    /\ UNCHANGED chatOnly

SendChatMessage_GetNew ==
    /\ ~panicked
    /\ Len(chat.drawn) < MaxChats
    /\ ID' = ID + 1
    /\ chat' = [chat EXCEPT !.drawn = Append(@, ID),
                            !.pending = @ \cup {ID}]
    /\ UNCHANGED chatOnly

\* the message map of SendChatMessage with the op_id it drew
ChatMessage(opID) ==
    [k \in {"queue", "op_id"} |-> IF k = "queue" THEN "q" ELSE opID]

\* then i.SendWebSocketMessage calls Send() (part_004 lines 554-558)
SendChatMessage_Send(opID) ==
    /\ ~panicked
    /\ opID \in chat.pending
    /\ Commit("SendChatMessage", NoProc, NoProc,
              send(World(ChatMessage(opID)), "msg_c2g_send_message"))
    /\ Hist(userClosed, sinceTimeout, reconnectedFor)

\* the client with the default hook, observing the records on its socket
SpecWire == InitW("wire") /\ [][NextDefaultHook]_vars

\* ------------------------------------------------------ OperationID.GetNew
\* src/unnamed/part_005, lines 16-24.  A caller is idle, waits for o.Lock()
\* ("Lock"), holds the mutex and is about to evaluate result := o.ID
\* ("result"), to load o.ID for o.ID++ ("inc"), to store the incremented
\* value ("store"), or to run the deferred o.Unlock() and return ("return").
InFlight == {c \in 1 .. MaxCallers : callers[c].pc # "idle"}

GetNew_Call(c) ==
    /\ callers[c].pc = "idle"
    /\ Len(issued) + Cardinality(InFlight) < MaxCalls
    /\ callers' = [callers EXCEPT ![c].pc = "Lock"]
    /\ UNCHANGED <<ID, opMu, issued, clientVars>>

\* GetNew() that does not take the mutex
GetNew_Lock_noMutex(c) ==
    /\ callers[c].pc = "Lock"
    /\ callers' = [callers EXCEPT ![c].pc = "result"]
    /\ UNCHANGED <<ID, opMu, issued, clientVars>>

GetNew_Lock(c) ==
    /\ callers[c].pc = "Lock"
    /\ opMu = 0
    /\ opMu' = c
    /\ callers' = [callers EXCEPT ![c].pc = "result"]
    /\ UNCHANGED <<ID, issued, clientVars>>

GetNew_Result(c) ==
    /\ callers[c].pc = "result"
    /\ callers' = [callers EXCEPT ![c].pc = "inc", ![c].result = ID]
    /\ UNCHANGED <<ID, opMu, issued, clientVars>>

GetNew_Inc(c) ==
    /\ callers[c].pc = "inc"
    /\ callers' = [callers EXCEPT ![c].pc = "store", ![c].tmp = ID]
    /\ UNCHANGED <<ID, opMu, issued, clientVars>>

GetNew_Store(c) ==
    /\ callers[c].pc = "store"
    /\ ID' = callers[c].tmp + 1
    /\ callers' = [callers EXCEPT ![c].pc = "return", ![c].tmp = 0]
    /\ UNCHANGED <<opMu, issued, clientVars>>

GetNew_Return(c) ==
    /\ callers[c].pc = "return"
    /\ opMu' = IF opMu = c THEN 0 ELSE opMu
    /\ issued' = Append(issued, callers[c].result)
    /\ callers' = [callers EXCEPT ![c].pc = "idle", ![c].result = 0]
    /\ UNCHANGED <<ID, clientVars>>

NextOpID ==
    \/ \E c \in 1 .. MaxCallers : GetNew_Call(c)
    \/ \E c \in 1 .. MaxCallers : GetNew_Lock(c)
    \/ \E c \in 1 .. MaxCallers : GetNew_Result(c)
    \/ \E c \in 1 .. MaxCallers : GetNew_Inc(c)
    \/ \E c \in 1 .. MaxCallers : GetNew_Store(c)
    \/ \E c \in 1 .. MaxCallers : GetNew_Return(c)

SpecOpID == InitW("opid") /\ [][NextOpID]_vars

\* ------------------------------------------------------ the codec at work
\* ChatMessagePayload.MarshalJSON and UnmarshalJSON applied to a payload and
\* to its encoding, StringOrInt.UnmarshalJSON applied to a literal and
\* StringOrInt.MarshalJSON to a stored value
codecOnly ==
    <<state, conn, done, connectRetryTimer, pingTimer, serverTimeoutTimer,
      connectRetryIntervalIndex, closedSocks, closedDone, leakedRetry,
      procs, panicked, last, userClosed, sinceTimeout,
      reconnectedFor, fails, scenario, wanted, subscribed, watch,
      handlers, invoked, arrived, opVars, mu, config, wire, chat>>

Marshal ==
    /\ codec.pc = "payload"
    /\ codec' = [codec EXCEPT !.pc = "wire",
                              !.data = ChatMessagePayload_MarshalJSON(codec.b)]
    /\ UNCHANGED codecOnly

Unmarshal ==
    /\ codec.pc = "wire"
    /\ codec' = [codec EXCEPT
                   !.pc = "back",
                   !.back = ChatMessagePayload_UnmarshalJSON(codec.data)]
    /\ UNCHANGED codecOnly

UnmarshalField ==
    /\ codec.pc = "literal"
    /\ codec' = [codec EXCEPT
                   !.pc = "value",
                   !.val = StringOrInt_UnmarshalJSON(codec.data)]
    /\ UNCHANGED codecOnly

MarshalField ==
    /\ codec.pc = "stored"
    /\ codec' = [codec EXCEPT !.pc = "emitted",
                              !.data = StringOrInt_MarshalJSON(codec.n)]
    /\ UNCHANGED codecOnly

NextCodec ==
    \/ Marshal
    \/ Unmarshal
    \/ UnmarshalField
    \/ MarshalField

SpecCodec ==
    InitClient("codec") /\ codec \in CodecTasks /\ [][NextCodec]_vars

\* -------------------------------------------------- the client left running
\* The consumer calls Connect() once, on the new client, and never Close().
ConnectOnce ==
    /\ state = "Closed"
    /\ procs = EmptyBag
    /\ Connect

NextLive ==
    \/ ConnectOnce
    \/ \E r \in SendRecords, p \in SendPayloads : Send(r, p)
    \/ \E q \in Queues : SubscribeToQueue(q)
    \/ \E d \in BagToSet(procs), ok \in BOOLEAN : run(d, ok)
    \/ \E d \in BagToSet(procs) : OnDisconnected(d)
    \/ \E d \in BagToSet(procs) : onOpen(d)
    \/ \E d \in BagToSet(procs) : LoopRead(d)
    \/ \E d \in BagToSet(procs) : Recv(d)
    \/ \E d \in BagToSet(procs) : ReadErr(d)
    \/ \E d \in BagToSet(procs) : SelectLoad(d)
    \/ \E d \in BagToSet(procs) : SelectChoose(d)
    \/ \E d \in BagToSet(procs), m \in Frames : onMessageTimeout(d, m)
    \/ \E d \in BagToSet(procs) : onMessage(d)
    \/ ServerTimerFires
    \/ PingTimerFires
    \/ \E o \in HookOutcomes : RetryTimerFires(o)
    \/ \E o \in HookOutcomes : LeakedRetryFires(o)
    \/ \E d \in BagToSet(procs) : sendPing(d)
    \/ \E d \in BagToSet(procs) : preReconnectErr(d)
    \/ \E d \in BagToSet(procs) : preReconnectOk(d)

\* The consumer calls Connect() once and SendChatMessage from several
\* goroutines, during the first connection of the client and after its loss:
\* the retry timer (one second or more) does not fire while they are observed.
NextChat ==
    \/ ConnectOnce
    \/ Close
    \/ \E d \in BagToSet(procs), ok \in BOOLEAN : run(d, ok)
    \/ \E d \in BagToSet(procs) : OnDisconnected(d)
    \/ \E d \in BagToSet(procs) : onOpen(d)
    \/ \E d \in BagToSet(procs) : LoopRead(d)
    \/ \E d \in BagToSet(procs) : Recv(d)
    \/ \E d \in BagToSet(procs) : ReadErr(d)
    \/ \E d \in BagToSet(procs) : SelectLoad(d)
    \/ \E d \in BagToSet(procs) : SelectChoose(d)
    \/ \E d \in BagToSet(procs), m \in Frames : onMessageTimeout(d, m)
    \/ \E d \in BagToSet(procs) : onMessage(d)
    \/ ServerTimerFires
    \/ PingTimerFires
    \/ \E d \in BagToSet(procs) : sendPing(d)
    \/ SendChatMessage_GetNew
    \/ \E opID \in chat.pending : SendChatMessage_Send(opID)

SpecChat == InitW("chat") /\ [][NextChat]_vars

\* The Go scheduler runs every goroutine that can run, a dial returns, and a
\* timer that stays armed fires.  Nothing is assumed of the server, the
\* network or the consumer: no frame need arrive and no call need be made.
Fairness ==
    /\ WF_vars(\E d \in BagToSet(procs), ok \in BOOLEAN : run(d, ok))
    /\ WF_vars(\E d \in BagToSet(procs) : OnDisconnected(d))
    /\ WF_vars(\E d \in BagToSet(procs) : onOpen(d))
    /\ WF_vars(\E d \in BagToSet(procs) : LoopRead(d))
    /\ WF_vars(\E d \in BagToSet(procs) : SelectLoad(d))
    /\ WF_vars(\E d \in BagToSet(procs) : SelectChoose(d))
    /\ WF_vars(\E d \in BagToSet(procs), m \in Frames : onMessageTimeout(d, m))
    /\ WF_vars(\E d \in BagToSet(procs) : onMessage(d))
    /\ WF_vars(ServerTimerFires)
    /\ WF_vars(PingTimerFires)
    /\ WF_vars(\E o \in HookOutcomes : RetryTimerFires(o))
    /\ WF_vars(\E o \in HookOutcomes : LeakedRetryFires(o))
    /\ WF_vars(\E d \in BagToSet(procs) : sendPing(d))
    /\ WF_vars(\E d \in BagToSet(procs) : preReconnectErr(d))
    /\ WF_vars(\E d \in BagToSet(procs) : preReconnectOk(d))

SpecLive == InitW("live") /\ [][NextLive]_vars /\ Fairness

\* ---------------------------------------------------------------- claims
\* goroutines inside run() that passed the guard of line 126 and have not
\* returned
AttemptPcs == {"run_onDisconnected", "onOpen", "loop", "ReadMessage",
               "onMessage", "onMessage2", "select", "selected",
               "loop_onDisconnected"}

Count(S) == BagCardinality([d \in {e \in BagToSet(procs) : e \in S} |-> procs[d]])

Attempts == Count({d \in BagToSet(procs) : d.pc \in AttemptPcs})

Readers(s) == Count({d \in BagToSet(procs) : d.pc = "ReadMessage" /\ d.sock = s})

HookSaid(s) == \E i \in DOMAIN last.hooks : last.hooks[i][1] = s

\* C1: after Close() has returned, and until the consumer calls Connect()
\* again, the client stays Closed and no retry timer is armed.
C1_ClosedUntilConnect ==
    userClosed => (state = "Closed" /\ connectRetryTimer.st # "armed")

\* C2: a read loop whose ReadMessage failed because the client closed the
\* socket returns without calling onDisconnected().
C2_IntentionalCloseIsSilent ==
    \A d \in BagToSet(procs) :
        ~(d.pc = "loop_onDisconnected" /\ d.why = "closed")

\* C3: a ping or server-timeout callback that had fired and was waiting for
\* the mutex when Close() ran writes to no socket, leaves the state alone and
\* arms no timer.
C3_StaleCallbackHasNoEffect ==
    [][(last'.op \in {"onServerTimeout", "sendPing"} /\ last'.stale)
         => /\ last'.wrote = <<>>
            /\ state' = state
            /\ (connectRetryTimer'.st = "armed" => connectRetryTimer' = connectRetryTimer)
            /\ (pingTimer' = "armed" => pingTimer = "armed")
            /\ (serverTimeoutTimer' = "armed" => serverTimeoutTimer = "armed")]_vars

\* C4: Close() always ends in state Closed with no socket, no timer and
\* backoff index 0, without a panic; a Close() right after a Close() changes
\* nothing and does not invoke the state-change hook.
C4_CloseIdempotent ==
    [][last'.op = "Close"
         => /\ state' = "Closed" /\ conn' = 0
            /\ connectRetryTimer' = NilTimer
            /\ pingTimer' = "nil" /\ serverTimeoutTimer' = "nil"
            /\ connectRetryIntervalIndex' = 0
            /\ ~panicked'
            /\ last.op = "Close"
                 => /\ last'.hooks = <<>>
                    /\ UNCHANGED <<state, conn, done, connectRetryTimer,
                                   pingTimer, serverTimeoutTimer,
                                   connectRetryIntervalIndex, closedSocks,
                                   closedDone, panicked>>]_vars

C4_Witness ==
    /\ last.op = "Close" /\ last.twice
    /\ state = "Closed"
    /\ closedDone # {}

\* C5: Connect() in state Connecting, Authenticating or Authenticated starts
\* no dial, changes neither state, socket, timers nor backoff index and does
\* not invoke the hook; in Closed or Waiting it clears the retry timer and
\* starts run().
C5_ConnectGuard ==
    [][last'.op = "Connect"
         => IF state \in {"Connecting", "Authenticating", "Authenticated"}
            THEN /\ UNCHANGED <<state, conn, done, connectRetryTimer,
                                pingTimer, serverTimeoutTimer,
                                connectRetryIntervalIndex, procs>>
                 /\ last'.hooks = <<>>
            ELSE /\ connectRetryTimer' = NilTimer
                 /\ procs' = procs (+) SetToBag({Proc("run", 0, 0, "", "")})
                 /\ UNCHANGED <<state, conn>>]_vars

C5_Witness ==
    /\ last.op = "Connect"
    /\ state = "Authenticated"
    /\ pingTimer = "armed" /\ serverTimeoutTimer = "armed"

\* C6: at most one run() has passed the state guard and not returned, and no
\* socket is read by two read loops.
C6_OneAttempt ==
    /\ Attempts <= 1
    /\ \A s \in 1..MaxSockets : Readers(s) <= 1

\* C7: Send() in a state other than Authenticated writes nothing, does not
\* panic, and leaves state, ping timer and the caller's payload map as they
\* were.
C7_SendWhenNotAuthenticated ==
    [][(last'.op = "Send" /\ state # "Authenticated")
         => /\ last'.wrote = <<>>
            /\ last'.payload = last'.arg
            /\ ~panicked'
            /\ UNCHANGED <<state, conn, pingTimer, serverTimeoutTimer,
                           connectRetryTimer>>]_vars

C7_Witness ==
    /\ last.op = "Send"
    /\ state = "Authenticating"
    /\ conn # 0
    /\ last.payload # EmptyMap

\* C8: the backoff index is always inside the interval table, and it is 0 in
\* the step that enters Authenticated.
C8_IndexInRange ==
    /\ connectRetryIntervalIndex \in 0 .. (Len(ReconnectIntervals) - 1)
    /\ HookSaid("Authenticated") => connectRetryIntervalIndex = 0

C8_Witness ==
    /\ HookSaid("Authenticated")
    /\ last.preIdx > 0

\* C9: a lost connection runs onDisconnected(), and with it reconnect(),
\* once: onDisconnected() is never called for a socket whose loss an earlier
\* call has handled already.
C9_OneReconnectPerFailure ==
    [][\A d \in BagToSet(procs) :
         OnDisconnected(d) => Victim(d) \notin reconnectedFor]_vars

\* C10: once a server-timeout has declared an Authenticated connection dead
\* and the old read loop is gone, the client is Waiting without a socket, the
\* retry timer is armed with the first interval and the index is 1.
C10_TimeoutUsesFirstInterval ==
    (sinceTimeout /\ Attempts = 0)
      => /\ state = "Waiting" /\ conn = 0
         /\ connectRetryTimer = [st |-> "armed", iv |-> ReconnectIntervals[1]]
         /\ connectRetryIntervalIndex = 1

\* C11: counted from backoff index 0, the k-th dial failure in a row waits
\* ReconnectIntervals[(k-1) mod n] and leaves the index at k mod n, so the
\* failure after the last entry of the table starts at the first entry again.
C11_BackoffWraps ==
    LET n == Len(ReconnectIntervals)
    IN  /\ fails >= 0 => connectRetryIntervalIndex = fails % n
        /\ (last.op = "run_onDisconnected" /\ fails >= 1)
              => /\ state = "Waiting"
                 /\ connectRetryTimer =
                      [st |-> "armed",
                       iv |-> ReconnectIntervals[((fails - 1) % n) + 1]]

C11_Witness ==
    /\ last.op = "run_onDisconnected"
    /\ fails = Len(ReconnectIntervals) + 1
    /\ connectRetryIntervalIndex = 1
    /\ connectRetryTimer.iv = ReconnectIntervals[1]

\* C12: the step that processes a result record with a status other than 0
\* while Authenticating closes the socket, clears the ping and server-timeout
\* timers and sends nothing to the consumer or the server; the read loop of
\* the rejected connection then ends: it does not call ReadMessage again.
C12_RejectedLoopEnds ==
    [][/\ (last'.op = "onMessage" /\ last'.msg = "resultBad"
             /\ last'.preState = "Authenticating")
            => /\ conn' = 0
               /\ pingTimer' = "nil" /\ serverTimeoutTimer' = "nil"
               /\ last'.wrote = <<>> /\ last'.delivered = <<>>
               /\ ~panicked'
       /\ ~(last'.op = "ReadMessage" /\ last'.why = "rejected")]_vars

\* C13: in a run of Connect(), a successful dial and a result record with
\* status 0, the state-change hook is called with Connecting, then
\* Authenticating, then Authenticated, and with nothing else.
HookPath == <<"Connecting", "Authenticating", "Authenticated">>

C13_HookOrder ==
    scenario # Off
      => /\ \E k \in 0 .. Len(HookPath) : scenario = SubSeq(HookPath, 1, k)
         /\ scenario # <<>> => state = scenario[Len(scenario)]
         /\ state = "Authenticated" => scenario = HookPath

C13_Witness ==
    /\ scenario = HookPath
    /\ state = "Authenticated"
    /\ conn # 0

\* C14: every queue the consumer asked to subscribe to, before or after the
\* connection was authenticated and on this or an earlier connection, is
\* transmitted on each authenticated connection: no connection leaves state
\* Authenticated without its msg_c2g_subscribe record having been written.
C14_SubscriptionsSurvive ==
    [][(state = "Authenticated" /\ state' # "Authenticated")
         => wanted \subseteq subscribed]_vars

\* C15: the state becomes Authenticated only in the step that processes a
\* result record with status 0 while Authenticating, and that step resets
\* the backoff index and writes msg_c2g_open_floodgates to the socket.
C15_AuthenticatedByResult ==
    [][(state' = "Authenticated" /\ state # "Authenticated")
         => /\ last'.op = "onMessage" /\ last'.msg = "result0"
            /\ last'.preState = "Authenticating"
            /\ connectRetryIntervalIndex' = 0
            /\ conn' # 0
            /\ last'.wrote \o last'.failed
                 = << <<conn', "msg_c2g_open_floodgates">> >>]_vars

\* C16: the calls of GetNew() return, in the order in which they held the
\* mutex, the initial value, the next one and so on: no value twice, none
\* left out, and a call that holds a result holds the next value to return.
C16_GetNewContiguous ==
    /\ \A i \in DOMAIN issued : issued[i] = OpIDInitial + i - 1
    /\ \A c \in 1 .. MaxCallers :
         callers[c].pc \in {"inc", "store", "return"}
           => callers[c].result = OpIDInitial + Len(issued)

C16_Witness ==
    /\ Len(issued) = 3
    /\ Cardinality({issued[i] : i \in DOMAIN issued}) = 3
    /\ \E c \in 1 .. MaxCallers : callers[c].pc = "Lock"
    /\ \E c \in 1 .. MaxCallers : callers[c].pc = "return"

\* the calls of onDisconnected() that are under way in the bag b
Disconnecting(b) ==
    BagCardinality([d \in {e \in BagToSet(b) : e.pc \in DiscPcs} |-> b[d]])

\* C17: a step of Send() in which the write to the socket returns an error
\* runs the disconnect path (socket released, ping and server-timeout timers
\* cleared, state Waiting, retry timer armed) or starts it.
C17_WriteErrorDisconnects ==
    [][(last'.op = "Send" /\ last'.failed # <<>>)
         => \/ /\ state' = "Waiting" /\ conn' = 0
               /\ pingTimer' = "nil" /\ serverTimeoutTimer' = "nil"
               /\ connectRetryTimer'.st = "armed"
            \/ Disconnecting(procs') > Disconnecting(procs)]_vars

\* C18: when Connect() was called once and Close() never, the client does
\* not crash, a client that is Waiting dials again, and a client that is
\* Connecting or Authenticating becomes Authenticated or Waiting.
C18_NeverStuck ==
    /\ []~panicked
    /\ (state = "Waiting") ~> (state = "Connecting")
    /\ (state \in {"Connecting", "Authenticating"})
          ~> (state \in {"Authenticated", "Waiting"})

\* C19: OnMessage is never called with a pong, nor with the result record
\* that answers the handshake (a result read from the socket while its
\* handshake was pending).
C19_InternalRecordsStayInside ==
    \A i \in DOMAIN last.delivered :
        /\ last.delivered[i] # "pong"
        /\ ~(last.delivered[i] \in {"result0", "resultBad"}
               /\ last.why = "auth")

C21_ArrivalOrder ==
    \A i, j \in DOMAIN invoked :
        (i < j /\ invoked[i][1] = invoked[j][1])
          => invoked[i][2] < invoked[j][2]

\* C22: every frame that ReadMessage returned, malformed or not and whatever
\* the number of OnMessage calls that have not returned, is processed
\* without waiting for the consumer, and processing it arms the server
\* timeout anew; the server timeout is armed by that step and by a
\* successful dial only, so it expires a full interval after one of them.
C22_EveryFrameRearms ==
    [][/\ (\E d \in BagToSet(procs) : d.pc = "onMessage") /\ ~panicked
            => ENABLED (\E d \in BagToSet(procs), m \in {"malformed"} :
                           onMessageTimeout(d, m))
       /\ last'.op = "onMessageTimeout" => serverTimeoutTimer' = "armed"
       /\ (serverTimeoutTimer' = "armed" /\ serverTimeoutTimer # "armed")
            => last'.op \in {"run", "onMessageTimeout"}]_vars

C22_Witness ==
    /\ last.op = "onMessageTimeout" /\ last.msg = "malformed"
    /\ BagCardinality(handlers) = MaxHandlers
    /\ state = "Authenticated"
    /\ serverTimeoutTimer = "armed"

\* C23: the step that processes a frame that is no JSON or has no string
\* record field hands nothing to the consumer, writes nothing, calls no
\* hook and leaves state, socket, done channel, backoff index, ping timer
\* and retry timer as they were; the frame goes no further and the read
\* loop is back at ReadMessage.
C23_MalformedDropped ==
    [][(last'.op = "onMessageTimeout" /\ last'.msg = "malformed")
         => /\ last'.delivered = <<>> /\ last'.wrote = <<>>
            /\ last'.hooks = <<>>
            /\ ~panicked'
            /\ UNCHANGED <<state, conn, done, connectRetryIntervalIndex,
                           pingTimer, connectRetryTimer, leakedRetry>>
            /\ \A d \in BagToSet(procs') : d.msg # "malformed"
            /\ BagCardinality(procs') = BagCardinality(procs)
            /\ \E d \in BagToSet(procs) :
                 /\ d.pc = "onMessage"
                 /\ procs' = (procs (-) SetToBag({d}))
                               (+) SetToBag({[d EXCEPT !.pc = "loop"]})]_vars

C23_Witness ==
    /\ last.op = "onMessageTimeout" /\ last.msg = "malformed"
    /\ state = "Authenticated"
    /\ conn # 0
    /\ pingTimer = "armed"
    /\ \E d \in BagToSet(procs) : d.pc = "loop"

\* C24: decoding the encoding of a chat payload gives the payload back,
\* field by field, whatever the texts of chatId, to and userId.
C24_RoundTrip ==
    codec.pc = "back" => codec.back = [ok |-> TRUE, b |-> codec.b]

\* C25: the JSON number n and the JSON string "n" both decode to the
\* decimal text of n, for every 64-bit integer n; a stored value is encoded
\* as a JSON number when it denotes a 64-bit integer and as the JSON string
\* of that value when it does not.
C25_CanonicalField ==
    /\ codec.pc = "value" => codec.val = [ok |-> TRUE, s |-> codec.n]
    /\ codec.pc = "emitted"
         => IF codec.n \in Int64Texts
            THEN IsJInteger(codec.data)
            ELSE codec.data = JString(codec.n)

C25_Witness ==
    /\ codec.pc = "value"
    /\ codec.data = <<"-", "0">>
    /\ codec.val.s = <<"0">>

\* C26: a step that writes a record through send() (a consumer's record, a
\* subscription, a ping, the floodgates record) leaves the ping timer armed
\* anew; sendPing() in state Authenticated writes one msg_c2g_ping to the
\* socket and arms the ping timer; sendPing() in another state writes
\* nothing and arms no timer.
C26_PingTimer ==
    [][/\ (last'.op \in Senders /\ last'.wrote # <<>>)
            => pingTimer' = "armed"
       /\ (last'.op = "sendPing" /\ state = "Authenticated")
            => /\ last'.wrote = << <<conn, "msg_c2g_ping">> >>
               /\ conn # 0
               /\ pingTimer' = "armed"
       /\ (last'.op = "sendPing" /\ state # "Authenticated")
            => /\ last'.wrote = <<>>
               /\ UNCHANGED <<state, conn, pingTimer>>]_vars

\* C27: between two lock-held sections, a client in state Closed or Waiting
\* has neither its ping timer nor its server-timeout timer armed.
C27_IdleClientHasNoTimer ==
    state \in {"Closed", "Waiting"}
        => pingTimer # "armed" /\ serverTimeoutTimer # "armed"

\* the timers of one kind that are armed, or have fired and whose callback
\* has not taken the mutex yet
LivePing ==
    (IF pingTimer = "armed" THEN 1 ELSE 0)
        + Count({d \in BagToSet(procs) : d.pc = "sendPing"})

LiveServerTimeout ==
    (IF serverTimeoutTimer = "armed" THEN 1 ELSE 0)
        + Count({d \in BagToSet(procs) : d.pc = "onServerTimeout"})

LiveRetry ==
    (IF connectRetryTimer.st = "armed" THEN 1 ELSE 0) + leakedRetry
        + Count({d \in BagToSet(procs) :
                    d.pc \in {"preReconnectErr", "preReconnectOk"}})

\* C28: at most one ping timer, one server-timeout timer and one retry
\* timer is live in every state.
C28_OneTimerOfEachKind ==
    LivePing <= 1 /\ LiveServerTimeout <= 1 /\ LiveRetry <= 1

\* C29: between two lock-held sections, a client that has a socket is in
\* state Connecting, Authenticating or Authenticated.
C29_SocketOnlyWhenConnected ==
    conn # 0 => state \in {"Connecting", "Authenticating", "Authenticated"}

\* C31: a step calls the state-change hook once, with the new state, if it
\* changes the state, and not at all if it leaves the state as it was; the
\* call carries a next-connect time exactly when the new state is Waiting.
C31_HookPerChange ==
    [][/\ HookStates(last') = (IF state' # state THEN <<state'>> ELSE <<>>)
       /\ \A i \in DOMAIN last'.hooks :
            IF last'.hooks[i][1] = "Waiting"
            THEN \E k \in DOMAIN ReconnectIntervals :
                    last'.hooks[i][2] = ReconnectIntervals[k]
            ELSE last'.hooks[i][2] = "nil"]_vars

C31_Witness ==
    /\ last.hooks # <<>>
    /\ last.hooks = << <<"Waiting", ReconnectIntervals[1]>> >>
    /\ last.op = "run_onDisconnected"
    /\ last.preState = "Connecting"
    /\ state = "Waiting"
    /\ connectRetryTimer.st = "armed"

\* C32: after every step, an armed retry timer means state Waiting, and a
\* step that arms a retry timer reports the interval of that timer through
\* the state-change hook.
C32_RetryTimeReported ==
    [][/\ connectRetryTimer'.st = "armed" => state' = "Waiting"
       /\ (/\ connectRetryTimer'.st = "armed"
           /\ \/ connectRetryTimer' # connectRetryTimer
              \/ leakedRetry' > leakedRetry)
            => last'.hooks = << <<"Waiting", connectRetryTimer'.iv>> >>]_vars

\* C33: the callback of the pre-reconnect hook, called without an error,
\* leaves the Config as it is when it gets nil and replaces UserID and
\* SessionID, and nothing else, when it gets a Config; it then calls
\* Connect(), which starts run() on a Waiting or Closed client; no other
\* step changes the Config, and the handshake of the next attempt carries
\* the credentials the Config holds then.
C33_CredentialsOnly ==
    [][/\ last'.op = "preReconnectOk"
            => /\ config' = IF last'.arg.absent THEN config
                            ELSE [config EXCEPT
                                    !.UserID = last'.arg.UserID,
                                    !.SessionID = last'.arg.SessionID]
               /\ (state \in {"Waiting", "Closed"})
                    <=> (\E d \in BagToSet(procs') :
                            d.pc = "run" /\ CopiesIn(d, procs') > CopiesIn(d, procs))
       /\ last'.op # "preReconnectOk" => config' = config
       /\ (last'.op = "onOpen" /\ last'.wrote # <<>>)
            => last'.payload = ConnectMsg(config)]_vars

C33_Witness ==
    /\ last.op = "onOpen"
    /\ last.wrote # <<>>
    /\ config = Config(<<"u", "1">>, <<"s", "2">>, "wss-1")
    /\ last.payload = ConnectMsg(config)
    /\ state = "Authenticating"

\* C34: the callback of the pre-reconnect hook, called with an error, finds
\* the state Waiting and leaves it Waiting, starts no run(), leaves the
\* Config as it is, arms a retry timer with the interval at the backoff
\* index and advances the index by one, wrapping at the end of the table.
C34_HookErrorRetries ==
    [][last'.op = "preReconnectErr"
         => /\ state = "Waiting" /\ state' = "Waiting"
            /\ config' = config
            /\ connectRetryTimer' =
                 [st |-> "armed",
                  iv |-> ReconnectIntervals[connectRetryIntervalIndex + 1]]
            /\ connectRetryIntervalIndex' =
                 (connectRetryIntervalIndex + 1) % Len(ReconnectIntervals)
            /\ \A d \in BagToSet(procs') :
                 CopiesIn(d, procs') <= CopiesIn(d, procs)]_vars

\* C35: between two lock-held sections, a client in state Authenticating or
\* Authenticated has a socket, and no read loop has called ReadMessage on a
\* nil socket (which ends the process with a panic).
C35_SocketWhileAuthenticating ==
    /\ state \in {"Authenticating", "Authenticated"} => conn # 0
    /\ ~panicked

\* C36: the onDisconnected() that a read loop calls for the read error of
\* its socket, when the client holds another, later socket by then, leaves
\* that socket, the state and the backoff index as they are.
C36_OldFailureSparesNewConnection ==
    [][\A d \in BagToSet(procs) :
         (/\ d.pc = "loop_onDisconnected"
          /\ conn # 0 /\ d.sock # conn
          /\ OnDisconnected(d))
            => /\ conn' = conn
               /\ conn \notin closedSocks'
               /\ state' = state
               /\ connectRetryIntervalIndex' = connectRetryIntervalIndex]_vars

\* C37: between two lock-held sections, the ping timer is armed only in
\* state Authenticated, and in state Authenticated it is armed or has just
\* fired and its callback sendPing(), which arms it again, is about to run.
C37_HeartbeatWhileAuthenticated ==
    /\ pingTimer = "armed" => state = "Authenticated"
    /\ state = "Authenticated"
         => \/ pingTimer = "armed"
            \/ \E d \in BagToSet(procs) : d.pc = "sendPing"

\* C38: the first record written to a socket is msg_c2g_connect, no later
\* record on that socket is msg_c2g_connect, and the second record is
\* msg_c2g_open_floodgates, so that the consumer's records and the pings
\* come after both.
C38_ProtocolOrder ==
    /\ wire # <<>> => wire[1] = "msg_c2g_connect"
    /\ \A i \in 2 .. Len(wire) : wire[i] # "msg_c2g_connect"
    /\ Len(wire) >= 2 => wire[2] = "msg_c2g_open_floodgates"

\* C39 as claimed: the op_ids of the msg_c2g_send_message records increase in
\* the order of the writes, and every op_id whose SendChatMessage has
\* returned is the op_id of exactly one written record.
C39_WireOrderIsIssuanceOrder ==
    /\ \A i, j \in DOMAIN chat.sent : i < j => chat.sent[i] < chat.sent[j]
    /\ \A k \in DOMAIN chat.drawn :
         chat.drawn[k] \notin chat.pending
           => Cardinality({j \in DOMAIN chat.sent :
                              chat.sent[j] = chat.drawn[k]}) = 1

\* C39: the op_ids of the msg_c2g_send_message records written are pairwise
\* distinct, each was drawn by a call of SendChatMessage that has called
\* Send(), and the op_ids drawn increase in the order of the draws.
C39_WireIdsDistinct ==
    /\ \A i, j \in DOMAIN chat.sent : i # j => chat.sent[i] # chat.sent[j]
    /\ \A j \in DOMAIN chat.sent :
         /\ \E k \in DOMAIN chat.drawn : chat.drawn[k] = chat.sent[j]
         /\ chat.sent[j] \notin chat.pending
    /\ \A i, k \in DOMAIN chat.drawn : i < k => chat.drawn[i] < chat.drawn[k]

C39_Witness ==
    /\ chat.drawn = <<OpIDInitial, OpIDInitial + 1>>
    /\ chat.sent = <<OpIDInitial + 1, OpIDInitial>>
    /\ chat.pending = {}
    /\ state = "Authenticated"
    /\ conn # 0

\* C30: while a run() is inside dialer.Dial the mutex is free, so that a
\* call of Close() made then takes the mutex at once.
C30_NoDialUnderLock ==
    (\E d \in BagToSet(procs) : d.pc = "dial") => (mu = 0 /\ ENABLED Close)

====
